---- MODULE Spec2Model ----
(***************************************************************************)
(* The batch image downloader of kidsnotes (src/src/downloads.js with the  *)
(* helpers of src/src/utils.js) as a state machine.                        *)
(*                                                                         *)
(* One work item is one entry of downloadList.  Its promise chain (the     *)
(* first download() call and the download() calls its error handler makes) *)
(* is followed by phase/retries/downloadSize; outcome is the value the     *)
(* promise awaited by downloadBatch settled with (the first resolve or     *)
(* reject of the chain wins, later ones are no-ops of the Promise).        *)
(*                                                                         *)
(* Events of one http.ClientRequest follow Node's documented sequences:    *)
(*   - before a response: 'response', 'error' or 'timeout';                *)
(*   - request.destroy() before a response makes the request emit 'error'  *)
(*     (socket hang up) afterwards;                                        *)
(*   - fs.WriteStream.close() ends the stream, so 'finish' is emitted to   *)
(*     the listeners registered by then;                                   *)
(*   - a response that is not consumed keeps its socket, whose idle        *)
(*     timeout can still fire;                                             *)
(*   - a connection closed after the response was received and before its  *)
(*     body is complete emits 'aborted' and 'error' on the response only:  *)
(*     no 'end' reaches the pipe and no 'error' the request.               *)
(* fs.close + fs.unlink of a cleanup take file-system latency only and are *)
(* folded into the handler that schedules them.                            *)
(***************************************************************************)
EXTENDS Integers, Sequences, FiniteSets, TLC

\* ---------------------------------------------------------------- bounds
MaxItems == 2
MaxConcurrency == 2
MaxFiles == 2
MaxBytes == 100
MaxRuns == 2
MaxListLen == 5
MaxWidth == 3
MaxRecords == 2
MaxImages == 2
MaxSyncFiles == 2
MaxDirFiles == 3
MaxCPUs == 2
MaxChildren == 2
MaxEnrollments == 2

\* ------------------------------------------------------ program constants
MinFileSize == 100
DefaultRetries == 3
HttpOk == 200
DefaultConcurrency == 10
DefaultPageSize == 9999
DocumentedPageSize == 20
TokenLength == 15

\* ------------------------------------------------------------------ strings
\* A string is the sequence of its characters; "" (and a missing value,
\* which the code tests the same way) is <<>>.
Letters == {"a", "b", "c", "d", "e", "f", "g", "h", "i", "j", "k", "l", "m",
            "n", "o", "p", "q", "r", "s", "t", "u", "v", "w", "x", "y", "z"}
Digits == {"0", "1", "2", "3", "4", "5", "6", "7", "8", "9"}

IndexOf(s, c) ==
    IF \E k \in 1..Len(s) : s[k] = c
    THEN CHOOSE k \in 1..Len(s) : s[k] = c /\ \A j \in 1..(k - 1) : s[j] # c
    ELSE 0
LastIndexOf(s, c) ==
    IF \E k \in 1..Len(s) : s[k] = c
    THEN CHOOSE k \in 1..Len(s) : s[k] = c /\ \A j \in (k + 1)..Len(s) : s[j] # c
    ELSE 0
StartsWith(s, c) == Len(s) > 0 /\ s[1] = c
\* s.replace(/[chars]/g, "")
RemoveAll(s, chars) == SelectSeq(s, LAMBDA c : c \notin chars)
\* s.replace(a, b): the first occurrence only
ReplaceFirst(s, a, b) ==
    IF IndexOf(s, a) = 0 THEN s ELSE [s EXCEPT ![IndexOf(s, a)] = b]
\* s.substring(0, n)
Substring(s, n) == SubSeq(s, 1, IF n <= Len(s) THEN n ELSE Len(s))
RECURSIVE StripTrailing(_, _)
StripTrailing(s, c) ==
    IF Len(s) > 0 /\ s[Len(s)] = c THEN StripTrailing(SubSeq(s, 1, Len(s) - 1), c)
    ELSE s
RECURSIVE StripLeading(_, _)
StripLeading(s, c) ==
    IF Len(s) > 0 /\ s[1] = c THEN StripLeading(Tail(s), c) ELSE s

HttpsUrl == <<"h", "t", "t", "p", "s", ":", "/", "/", "h", "/", "a">>
HttpUrl == <<"h", "t", "t", "p", ":", "/", "/", "h", "/", "a">>
RelativeUrl == <<"a">>

\* ------------------------------------------------------------ input sets
UrlKinds == {HttpsUrl, HttpUrl, RelativeUrl}
StatusCodes == {200, 404}
ContentLengths == {0, 50, 99, 100}
ChunkSizes == {50, 99}
InitialFileSizes == {99, 100}
Created == <<"2", "0", "2", "3", "-", "1", "2", "-", "2", "5", "T", "1", "0", ":", "3", "0", ":", "4", "5">>
IdOf(k) == <<<<"1", "2", "3", "4", "5", "6", "7", "8", "9">>[k]>>

NoFile == [exists |-> FALSE, size |-> 0]
File(n) == [exists |-> TRUE, size |-> n]
NoResponse == [statusCode |-> 0, contentLength |-> 0]

VARIABLES
    downloadList,   \* the work list: sequence of [url, filename]
    concurrency,    \* the argument of downloads()
    disk,           \* destination directory: filename -> NoFile or File(size)
    stats,          \* the module-level counters
    pc,             \* downloads(): "start", "batch", "sleep", "done"
    batchIndex,     \* the loop variable i of downloads()
    phase,          \* per item: where its current download() call stands
    retries,        \* per item: the retries argument of its current call
    downloadSize,   \* per item: bytes counted by the 'data' listener
    linked,         \* per item: its write stream's file is still the path's file
    response,       \* per item: status and declared length of the response received
    outcome,        \* per item: what its promise settled with
    requests,       \* per item: https.get calls made for it in this run
    run,            \* which invocation of the program this is
    firstRun,       \* per item: its outcome in the previous invocation
    argc,           \* process.argv.slice(2).length
    reportFile,     \* the file at jsonFilePath: missing, malformed, or its results
    data,           \* data.results once loadJson has returned
    destination,    \* what is at downloadPath: nothing, a directory, a file
    exitCode,       \* the status the process exits with
    diagnostic,     \* which message the process wrote before exiting
    allFiles,       \* timestamp sync: the paths handed to updateFileDates
    fileStats,      \* timestamp sync: per path, birthtime and mtime of the file
    messages,       \* timestamp sync: per path, the result of updateFileDates
    setFileCalls,   \* timestamp sync: per path, how often SetFile was run
    numCPUs,        \* timestamp sync: os.cpus().length
    numWorkers,     \* timestamp sync, directory mode: Math.min(numCPUs, totalFiles)
    fileChunks,     \* timestamp sync, directory mode: the paths of each worker
    workers,        \* per worker: next path to do, messages posted and not yet
                    \* received, and whether it runs, has stopped, or its exit was handled
    coordinator,    \* main thread: completed, successCount, failCount, skipCount,
                    \* failList, workersFinished, and how often the summary was printed
    info,           \* URL builders: what loadJson(infoPath) gives
    center,         \* URL builders: what loadJson(centerPath) gives
    pageSize,       \* URL builders: the pageSize argument, 0 when it is not given
    noticeDate,     \* URL builders: the date argument, empty when it is not given
    uris            \* URL builders: which builder was called, whether it threw,
                    \* and the array it returned

vars == <<downloadList, concurrency, disk, stats, pc, batchIndex, phase, retries,
          downloadSize, linked, response, outcome, requests, run, firstRun,
          argc, reportFile, data, destination, exitCode, diagnostic,
          allFiles, fileStats, messages, setFileCalls,
          numCPUs, numWorkers, fileChunks, workers, coordinator,
          info, center, pageSize, noticeDate, uris>>

uriVars == <<info, center, pageSize, noticeDate, uris>>
dirVars == <<numCPUs, numWorkers, fileChunks, workers, coordinator>>
syncVars == <<allFiles, fileStats, messages, setFileCalls,
              numCPUs, numWorkers, fileChunks, workers, coordinator>>
cliVars == <<argc, reportFile, data, destination, exitCode, diagnostic>>

Items == 1..Len(downloadList)

Max(a, b) == IF a >= b THEN a ELSE b
Min(a, b) == IF a <= b THEN a ELSE b

Failures == {"InvalidSource", "HttpError", "SizeViolation", "EmptyFile",
             "Timeout", "TransportFailure"}
Outcomes == {"none", "downloaded", "skipped"} \cup Failures

\* ----------------------------------------------------------- utils.js
isValidFile_strict(file, minSize) == file.exists /\ file.size > minSize
isValidFile_existsOnly(file, minSize) == file.exists
isValidFile(file, minSize) == file.exists /\ file.size >= minSize

\* new URL(url): the scheme is what stands before the first ":", a letter
\* and then letters, digits, "+", "-" or "."; a URL of the schemes that need
\* a host does not parse without one.  protocol is the scheme and its ":".
Scheme(url) == SubSeq(url, 1, IndexOf(url, ":") - 1)
Parses(url) ==
    /\ IndexOf(url, ":") > 1
    /\ url[1] \in Letters
    /\ \A k \in 1..Len(Scheme(url)) :
          Scheme(url)[k] \in Letters \cup Digits \cup {"+", "-", "."}
    /\ Scheme(url) \in {<<"h", "t", "t", "p", "s">>, <<"h", "t", "t", "p">>}
          => StripLeading(SubSeq(url, IndexOf(url, ":") + 1, Len(url)), "/") # <<>>
protocol(url) == Scheme(url) \o <<":">>

isValidUrl_any(url) == url # <<>> /\ Parses(url)
isValidUrl(url) == url # <<>> /\ Parses(url) /\ protocol(url) \in {<<"h", "t", "t", "p", "s", ":">>}

chunkArray_fullGroupsOnly(array, chunkSize) ==
    [k \in 1..(Len(array) \div chunkSize) |->
        SubSeq(array, (k - 1) * chunkSize + 1, k * chunkSize)]

RECURSIVE chunkFrom(_, _, _)
chunkFrom(array, chunkSize, i) ==
    IF i < Len(array)
    THEN <<SubSeq(array, i + 1, Min(i + chunkSize, Len(array)))>>
             \o chunkFrom(array, chunkSize, i + chunkSize)
    ELSE <<>>
chunkArray(array, chunkSize) == chunkFrom(array, chunkSize, 0)

\* generateFilename(createdAt, id, ext)
generateFilenameThrows_never(createdAt, id) == FALSE
generateFilenameThrows(createdAt, id) == createdAt = <<>> \/ id = <<>>
generateFilename(createdAt, id, ext) ==
    LET sanitizedExt == IF StartsWith(ext, ".") THEN ext ELSE <<".">> \o ext
    IN Substring(ReplaceFirst(RemoveAll(createdAt, {"-", ":"}), "T", "-"), TokenLength)
           \o <<"-">> \o id \o sanitizedExt

\* path.extname(p): from the last "." of the last segment of p on, or ""
\* when that segment has no "." or only a leading one.
extname(p) ==
    LET t == StripTrailing(p, "/")
        seg == SubSeq(t, LastIndexOf(t, "/") + 1, Len(t))
        d == LastIndexOf(seg, ".")
    IN IF d <= 1 \/ seg = <<".", ".">> THEN <<>> ELSE SubSeq(seg, d, Len(seg))

\* ensureDirectory(dirPath): throws when the path exists and is not a
\* directory, leaves an existing directory alone, and creates a missing one.
\* (A mkdirSync that fails is not among the destinations modelled.)
ensureDirectoryThrows_never(dest) == FALSE
ensureDirectoryThrows(dest) == dest = "file"
ensureDirectory(dest) == IF dest = "absent" THEN "directory" ELSE dest

\* The extraction loop of downloads(): the images that have a URL, record by
\* record and image by image; then one work item for each of them.
WithUrl_everyImage(entry) ==
    [k \in DOMAIN entry.attached_images |->
        [createdAt |-> entry.created,
         id |-> entry.attached_images[k].id,
         original |-> entry.attached_images[k].original]]

WithUrl(entry) ==
    LET images == SelectSeq(entry.attached_images, LAMBDA image : image.original # <<>>)
    IN [k \in 1..Len(images) |-> [createdAt |-> entry.created,
                                  id |-> images[k].id,
                                  original |-> images[k].original]]
RECURSIVE Wanted(_)
Wanted(results) ==
    IF results = <<>> THEN <<>> ELSE WithUrl(Head(results)) \o Wanted(Tail(results))

extractThrows(results) ==
    \E k \in DOMAIN Wanted(results) :
        generateFilenameThrows(Wanted(results)[k].createdAt, Wanted(results)[k].id)
extract(results) ==
    [k \in DOMAIN Wanted(results) |->
        LET w == Wanted(results)[k] IN
        [url |-> w.original,
         filename |-> generateFilename(w.createdAt, w.id,
                          IF extname(w.original) = <<>> THEN <<".", "j", "p", "g">>
                          ELSE extname(w.original))]]

\* The names that the images numbered 1, 2, ... of a record get.
FileNamed(k) == generateFilename(Created, IdOf(k), <<".", "j", "p", "g">>)
Files == {FileNamed(k) : k \in 1..MaxFiles}

\* ------------------------------------------------- the state a handler sees
Cur == [disk |-> disk, stats |-> stats, phase |-> phase, retries |-> retries,
        downloadSize |-> downloadSize, linked |-> linked, response |-> response,
        outcome |-> outcome, requests |-> requests]

Commit(s) ==
    /\ disk' = s.disk
    /\ stats' = s.stats
    /\ phase' = s.phase
    /\ retries' = s.retries
    /\ downloadSize' = s.downloadSize
    /\ linked' = s.linked
    /\ response' = s.response
    /\ outcome' = s.outcome
    /\ requests' = s.requests

filenameOf(i) == downloadList[i].filename

\* resolve(value): the first settlement of the chain is the item's outcome.
Resolve(s, i, value) ==
    IF s.outcome[i] = "none" THEN [s EXCEPT !.outcome[i] = value] ELSE s

\* reject(error), and the catch of downloadBatch that counts the failure.
Reject(s, i, error) ==
    IF s.outcome[i] = "none"
    THEN [s EXCEPT !.outcome[i] = error, !.stats.failed = @ + 1]
    ELSE s

\* fileStream.close(() => fs.unlink(filePath, () => {}))
Cleanup(s, i) ==
    [s EXCEPT !.disk[filenameOf(i)] = NoFile,
              !.linked = [j \in DOMAIN s.linked |->
                             IF filenameOf(j) = filenameOf(i) THEN FALSE
                             ELSE s.linked[j]]]

\* The executor of download(url, filename, r), up to https.get.
download(s, i, r) ==
    LET t == [s EXCEPT !.retries[i] = r] IN
    IF isValidFile(t.disk[filenameOf(i)], MinFileSize)
    THEN Resolve([t EXCEPT !.stats.skipped = @ + 1, !.phase[i] = "closed"],
                 i, "skipped")
    ELSE IF ~isValidUrl(downloadList[i].url)
    THEN Reject([t EXCEPT !.phase[i] = "closed"], i, "InvalidSource")
    ELSE [t EXCEPT !.disk[filenameOf(i)] = File(0),
                   !.linked[i] = TRUE,
                   !.downloadSize[i] = 0,
                   !.response[i] = NoResponse,
                   !.requests[i] = @ + 1,
                   !.phase[i] = "req"]

OnResponse_noSizeCheck(s, i, statusCode, contentLength) ==
    LET t == [s EXCEPT !.response[i] = [statusCode |-> statusCode,
                                        contentLength |-> contentLength]]
    IN IF statusCode # HttpOk
       THEN Reject(Cleanup([t EXCEPT !.phase[i] = "unread"], i), i, "HttpError")
       ELSE [t EXCEPT !.phase[i] = "stream"]

OnResponse_keepFile(s, i, statusCode, contentLength) ==
    LET t == [s EXCEPT !.response[i] = [statusCode |-> statusCode,
                                        contentLength |-> contentLength]]
    IN IF statusCode # HttpOk
       THEN Reject([t EXCEPT !.phase[i] = "unread"], i, "HttpError")
       ELSE IF contentLength > 0 /\ contentLength < MinFileSize
       THEN Reject(Cleanup([t EXCEPT !.phase[i] = "unread"], i), i, "SizeViolation")
       ELSE [t EXCEPT !.phase[i] = "stream"]

\* The callback of https.get: status check, declared size check, pipe.
OnResponse(s, i, statusCode, contentLength) ==
    LET t == [s EXCEPT !.response[i] = [statusCode |-> statusCode,
                                        contentLength |-> contentLength]]
    IN IF statusCode # HttpOk
       THEN Reject(Cleanup([t EXCEPT !.phase[i] = "unread"], i), i, "HttpError")
       ELSE IF contentLength > 0 /\ contentLength < MinFileSize
       THEN Reject(Cleanup([t EXCEPT !.phase[i] = "unread"], i), i, "SizeViolation")
       ELSE [t EXCEPT !.phase[i] = "stream"]

\* response.on("data") and the pipe's write to the file.
OnData(s, i, chunk) ==
    LET n == s.downloadSize[i] + chunk
        f == filenameOf(i)
    IN [s EXCEPT !.downloadSize[i] = n,
                 !.disk[f] = IF s.linked[i]
                             THEN File(Max(s.disk[f].size, n))
                             ELSE s.disk[f]]

\* fileStream.on("finish") and its close callback.
OnFinish(s, i) ==
    IF s.downloadSize[i] > 0
    THEN Resolve([s EXCEPT !.stats.downloaded = @ + 1, !.phase[i] = "closed"],
                 i, "downloaded")
    ELSE Reject(Cleanup([s EXCEPT !.phase[i] = "closed"], i), i, "EmptyFile")

OnError_offByOne(s, i) ==
    IF s.retries[i] > 1
    THEN Cleanup([s EXCEPT !.phase[i] = "backoff"], i)
    ELSE Reject(Cleanup([s EXCEPT !.phase[i] = "closed"], i), i, "TransportFailure")

\* request.on("error"): cleanup, then a retry in 2000 ms or the rejection.
OnError(s, i) ==
    IF s.retries[i] > 0
    THEN Cleanup([s EXCEPT !.phase[i] = "backoff"], i)
    ELSE Reject(Cleanup([s EXCEPT !.phase[i] = "closed"], i), i, "TransportFailure")

\* The callback of request.setTimeout: destroy, cleanup, reject.
AfterDestroy(p) ==
    CASE p = "req" -> "destroyed"
      [] p = "stream" -> "aborted"
      [] OTHER -> "closed"

OnTimeout(s, i) ==
    Reject(Cleanup([s EXCEPT !.phase[i] = AfterDestroy(s.phase[i])], i), i, "Timeout")

RECURSIVE StartAll_stopAtFailure(_, _)
StartAll_stopAtFailure(s, batch) ==
    IF batch = <<>> THEN s
    ELSE LET t == download(s, Head(batch), DefaultRetries) IN
         IF t.outcome[Head(batch)] \in Failures THEN t
         ELSE StartAll_stopAtFailure(t, Tail(batch))

\* batch.map(...) of downloadBatch: the executors run one after the other.
RECURSIVE StartAll(_, _)
StartAll(s, batch) ==
    IF batch = <<>> THEN s
    ELSE StartAll(download(s, Head(batch), DefaultRetries), Tail(batch))

ItemSeq == [k \in 1..Len(downloadList) |-> k]
batches == chunkArray(ItemSeq, concurrency)
BatchOf(i) == CHOOSE k \in 0..(Len(batches) - 1) :
                 \E n \in DOMAIN batches[k + 1] : batches[k + 1][n] = i
InBatch(k) == {batches[k + 1][n] : n \in DOMAIN batches[k + 1]}

\* ------------------------------------------------------------------ Init
\* The downloader does not touch what timestamp sync works on.
NoUris ==
    /\ info = [hasChildren |-> FALSE, children |-> <<>>]
    /\ center = [id |-> 0]
    /\ pageSize = 0
    /\ noticeDate = <<>>
    /\ uris = [call |-> "none", threw |-> FALSE, list |-> <<>>]

NoWorkers ==
    /\ numWorkers = 0
    /\ fileChunks = <<>>
    /\ workers = <<>>
    /\ coordinator = [completed |-> 0, successCount |-> 0, failCount |-> 0,
                      skipCount |-> 0, failList |-> <<>>, workersFinished |-> 0,
                      summaries |-> 0]

NoSync ==
    /\ allFiles = <<>>
    /\ fileStats = <<>>
    /\ messages = <<>>
    /\ setFileCalls = <<>>
    /\ numCPUs = 1
    /\ NoWorkers

NoneStarted(list) ==
    /\ phase = [i \in DOMAIN list |-> "idle"]
    /\ retries = [i \in DOMAIN list |-> DefaultRetries]
    /\ downloadSize = [i \in DOMAIN list |-> 0]
    /\ linked = [i \in DOMAIN list |-> FALSE]
    /\ response = [i \in DOMAIN list |-> NoResponse]
    /\ outcome = [i \in DOMAIN list |-> "none"]
    /\ requests = [i \in DOMAIN list |-> 0]

\* Reports of one record with n images, each with a URL.  Image ids are
\* numbered in order of first use, so two reports that differ only in the
\* names of their images are listed once.
ImageIds(n) ==
    {f \in [1..n -> 1..MaxFiles] :
        \A k \in 1..n : \A g \in 1..(f[k] - 1) : \E j \in 1..(k - 1) : f[j] = g}
Reports(n) ==
    {<<[created |-> Created,
        attached_images |-> [k \in 1..n |-> [id |-> IdOf(f[k]), original |-> u[k]]]]>> :
        f \in ImageIds(n), u \in [1..n -> UrlKinds]}

\* Destination directories: a file the work list does not name stays out.
Directories(list) ==
    {d \in [Files -> {NoFile} \cup {File(n) : n \in InitialFileSizes}] :
        \A f \in Files :
            (\A k \in DOMAIN list : list[k].filename # f) => d[f] = NoFile}

\* downloads(c) has ensured the directory and built the work list from the
\* report that the command line named.
InitWith(reports, widths) ==
    /\ data \in reports
    /\ downloadList = extract(data)
    /\ argc = 1
    /\ reportFile = [state |-> "ok", results |-> data]
    /\ destination = "directory"
    /\ exitCode = 0
    /\ diagnostic = "none"
    /\ NoUris
    /\ concurrency \in widths
    /\ disk \in Directories(downloadList)
    /\ stats = [total |-> 0, downloaded |-> 0, skipped |-> 0, failed |-> 0]
    /\ pc = "start"
    /\ batchIndex = 0
    /\ NoneStarted(downloadList)
    /\ run = 1
    /\ firstRun = [i \in DOMAIN downloadList |-> "none"]
    /\ NoSync

Init == InitWith(UNION {Reports(n) : n \in 0..MaxItems}, 1..MaxConcurrency)

\* One report with a single image, downloaded by downloads(1).
InitFetch == InitWith(Reports(1), {1})

\* ------------------------------------------------- sync_date_from_filename
UpperLetters == {"A", "B", "C", "D", "E", "F", "G", "H", "I", "J", "K", "L", "M",
                 "N", "O", "P", "Q", "R", "S", "T", "U", "V", "W", "X", "Y", "Z"}

\* FILENAME_REGEX = /^(\d{8})-(\d{6})-(.+)\.([a-zA-Z0-9]+)$/
FILENAME_REGEX(filename) ==
    /\ Len(filename) >= 19
    /\ \A k \in 1..8 : filename[k] \in Digits
    /\ filename[9] = "-"
    /\ \A k \in 10..15 : filename[k] \in Digits
    /\ filename[16] = "-"
    /\ \E d \in 18..(Len(filename) - 1) :
          /\ filename[d] = "."
          /\ \A k \in (d + 1)..Len(filename) :
                filename[k] \in Letters \cup UpperLetters \cup Digits

basename(filePath) == SubSeq(filePath, LastIndexOf(filePath, "/") + 1, Len(filePath))

DigitChar(n) == <<"0", "1", "2", "3", "4", "5", "6", "7", "8", "9">>[n + 1]
DigitValue(c) == CHOOSE n \in 0..9 : DigitChar(n) = c
RECURSIVE String(_)
String(n) == IF n < 10 THEN <<DigitChar(n)>> ELSE String(n \div 10) \o <<DigitChar(n % 10)>>
padStart2(str) == IF Len(str) < 2 THEN <<"0">> \o str ELSE str
RECURSIVE Number(_)
Number(str) ==
    IF str = <<>> THEN 0
    ELSE 10 * Number(SubSeq(str, 1, Len(str) - 1)) + DigitValue(str[Len(str)])

\* formatDate(date): "YYYY-MM-DD HH:mm:ss" of a Date, in local time.
formatDate(date) ==
    String(date.year) \o <<"-">> \o padStart2(String(date.month + 1)) \o <<"-">>
        \o padStart2(String(date.day)) \o <<" ">> \o padStart2(String(date.hours))
        \o <<":">> \o padStart2(String(date.minutes)) \o <<":">>
        \o padStart2(String(date.seconds))

\* The Date that SetFile -d/-m "MM/DD/YYYY HH:mm:ss" gives a file.
SetFile(dateString) ==
    [year |-> Number(SubSeq(dateString, 7, 10)),
     month |-> Number(SubSeq(dateString, 1, 2)) - 1,
     day |-> Number(SubSeq(dateString, 4, 5)),
     hours |-> Number(SubSeq(dateString, 12, 13)),
     minutes |-> Number(SubSeq(dateString, 15, 16)),
     seconds |-> Number(SubSeq(dateString, 18, 19)),
     ms |-> 0]

NoStat == [exists |-> FALSE]
Stat(birthtime, mtime) == [exists |-> TRUE, birthtime |-> birthtime, mtime |-> mtime]
Result(success, skipped, reason) ==
    [success |-> success, skipped |-> skipped, reason |-> reason]
NoMessage == Result(FALSE, FALSE, "none")

\* updateFileDates(filePath) on a file whose fs.statSync gives oldStat, with
\* execSync of SetFile succeeding or throwing: the result returned, whether
\* SetFile was run, and the file's stat afterwards.
updateFileDates_noSkip(filePath, oldStat, execOk) ==
    LET filename == basename(filePath)
        year == SubSeq(filename, 1, 4)
        month == SubSeq(filename, 5, 6)
        day == SubSeq(filename, 7, 8)
        hour == SubSeq(filename, 10, 11)
        minute == SubSeq(filename, 12, 13)
        second == SubSeq(filename, 14, 15)
        setFileDateString == month \o <<"/">> \o day \o <<"/">> \o year \o <<" ">>
                                 \o hour \o <<":">> \o minute \o <<":">> \o second
    IN IF ~FILENAME_REGEX(filename)
       THEN [result |-> Result(FALSE, FALSE, "format mismatch"), invoked |-> FALSE,
             stat |-> oldStat]
       ELSE IF ~oldStat.exists
       THEN [result |-> Result(FALSE, FALSE, "stat failed"), invoked |-> FALSE,
             stat |-> oldStat]
       ELSE IF execOk
       THEN [result |-> Result(TRUE, FALSE, "none"), invoked |-> TRUE,
             stat |-> Stat(SetFile(setFileDateString), SetFile(setFileDateString))]
       ELSE [result |-> Result(FALSE, FALSE, "command failed"), invoked |-> TRUE,
             stat |-> oldStat]

updateFileDates(filePath, oldStat, execOk) ==
    LET filename == basename(filePath)
        year == SubSeq(filename, 1, 4)
        month == SubSeq(filename, 5, 6)
        day == SubSeq(filename, 7, 8)
        hour == SubSeq(filename, 10, 11)
        minute == SubSeq(filename, 12, 13)
        second == SubSeq(filename, 14, 15)
        setFileDateString == month \o <<"/">> \o day \o <<"/">> \o year \o <<" ">>
                                 \o hour \o <<":">> \o minute \o <<":">> \o second
        newDateFormatted == year \o <<"-">> \o month \o <<"-">> \o day \o <<" ">>
                                \o hour \o <<":">> \o minute \o <<":">> \o second
    IN IF ~FILENAME_REGEX(filename)
       THEN [result |-> Result(FALSE, FALSE, "format mismatch"), invoked |-> FALSE,
             stat |-> oldStat]
       ELSE IF ~oldStat.exists
       THEN [result |-> Result(FALSE, FALSE, "stat failed"), invoked |-> FALSE,
             stat |-> oldStat]
       ELSE IF /\ formatDate(oldStat.birthtime) = newDateFormatted
               /\ formatDate(oldStat.mtime) = newDateFormatted
       THEN [result |-> Result(FALSE, TRUE, "already synced"), invoked |-> FALSE,
             stat |-> oldStat]
       ELSE IF execOk
       THEN [result |-> Result(TRUE, FALSE, "none"), invoked |-> TRUE,
             stat |-> Stat(SetFile(setFileDateString), SetFile(setFileDateString))]
       ELSE [result |-> Result(FALSE, FALSE, "command failed"), invoked |-> TRUE,
             stat |-> oldStat]

\* ---------------------------------------------------------------- actions
\* The command line: usage, report file present, loadJson.
Exit_statusZero(code, message) ==
    /\ pc' = "exit"
    /\ exitCode' = 0
    /\ diagnostic' = message

Exit(code, message) ==
    /\ pc' = "exit"
    /\ exitCode' = code
    /\ diagnostic' = message

Main ==
    /\ pc = "main"
    /\ IF argc = 0 THEN Exit(1, "usage") /\ data' = data
       ELSE IF reportFile.state = "missing" THEN Exit(1, "not found") /\ data' = data
       ELSE IF reportFile.state = "malformed" THEN Exit(1, "load failed") /\ data' = data
       ELSE /\ data' = reportFile.results
            /\ pc' = "setup"
            /\ UNCHANGED <<exitCode, diagnostic>>
    /\ UNCHANGED <<downloadList, concurrency, disk, stats, batchIndex, phase, retries,
                   downloadSize, linked, response, outcome, requests, run, firstRun,
                   argc, reportFile, destination>>
    /\ UNCHANGED syncVars
    /\ UNCHANGED uriVars

\* downloads(): ensureDirectory and the extraction loop.  An exception of
\* either rejects downloads(), whose catch exits the process with status 1.
Setup ==
    /\ pc = "setup"
    /\ IF ensureDirectoryThrows(destination)
       THEN /\ Exit(1, "fatal")
            /\ UNCHANGED <<destination, downloadList, phase, retries, downloadSize,
                           linked, response, outcome, requests, firstRun>>
       ELSE /\ destination' = ensureDirectory(destination)
            /\ IF extractThrows(data)
               THEN /\ Exit(1, "fatal")
                    /\ UNCHANGED <<downloadList, phase, retries, downloadSize,
                                   linked, response, outcome, requests, firstRun>>
               ELSE /\ downloadList' = extract(data)
                    /\ phase' = [i \in DOMAIN extract(data) |-> "idle"]
                    /\ retries' = [i \in DOMAIN extract(data) |-> DefaultRetries]
                    /\ downloadSize' = [i \in DOMAIN extract(data) |-> 0]
                    /\ linked' = [i \in DOMAIN extract(data) |-> FALSE]
                    /\ response' = [i \in DOMAIN extract(data) |-> NoResponse]
                    /\ outcome' = [i \in DOMAIN extract(data) |-> "none"]
                    /\ requests' = [i \in DOMAIN extract(data) |-> 0]
                    /\ firstRun' = [i \in DOMAIN extract(data) |-> "none"]
                    /\ pc' = "start"
                    /\ UNCHANGED <<exitCode, diagnostic>>
    /\ UNCHANGED <<concurrency, disk, stats, batchIndex, run, argc, reportFile, data>>
    /\ UNCHANGED syncVars
    /\ UNCHANGED uriVars

\* downloads(): stats.total, chunkArray, and the first downloadBatch call.
StartRun ==
    /\ pc = "start"
    /\ LET s == [Cur EXCEPT !.stats.total = Len(downloadList)] IN
       IF Len(batches) = 0
       THEN /\ pc' = "done"
            /\ Commit(s)
       ELSE /\ pc' = "batch"
            /\ Commit(StartAll(s, batches[1]))
    /\ batchIndex' = 0
    /\ UNCHANGED <<downloadList, concurrency, run, firstRun>>
    /\ UNCHANGED cliVars
    /\ UNCHANGED uriVars
    /\ UNCHANGED syncVars

\* Promise.allSettled of downloadBatch has every promise of the group settled.
AllSettled ==
    /\ pc = "batch"
    /\ \A i \in InBatch(batchIndex) : outcome[i] # "none"

\* downloadBatch returns and the loop of downloads() goes on.  This is a
\* promise continuation: it runs before any further timer or I/O callback.
BatchDone ==
    /\ AllSettled
    /\ pc' = IF batchIndex < Len(batches) - 1 THEN "sleep" ELSE "done"
    /\ UNCHANGED <<downloadList, concurrency, disk, stats, batchIndex, phase, retries,
                   downloadSize, linked, response, outcome, requests, run, firstRun>>
    /\ UNCHANGED cliVars
    /\ UNCHANGED uriVars
    /\ UNCHANGED syncVars

\* sleep(1000) resolves; the loop calls downloadBatch for the next group.
SleepDone ==
    /\ pc = "sleep"
    /\ pc' = "batch"
    /\ batchIndex' = batchIndex + 1
    /\ Commit(StartAll(Cur, batches[batchIndex + 2]))
    /\ UNCHANGED <<downloadList, concurrency, run, firstRun>>
    /\ UNCHANGED cliVars
    /\ UNCHANGED uriVars
    /\ UNCHANGED syncVars

\* A timer or I/O callback of one item, run to completion.
Event(s) ==
    /\ ~AllSettled
    /\ Commit(s)
    /\ UNCHANGED <<downloadList, concurrency, pc, batchIndex, run, firstRun>>
    /\ UNCHANGED cliVars
    /\ UNCHANGED uriVars
    /\ UNCHANGED syncVars

Response(i) ==
    /\ phase[i] = "req"
    /\ \E statusCode \in StatusCodes, contentLength \in ContentLengths :
          Event(OnResponse(Cur, i, statusCode, contentLength))

Data(i) ==
    /\ phase[i] = "stream"
    /\ \E chunk \in ChunkSizes :
          /\ downloadSize[i] + chunk <= MaxBytes
          /\ Event(OnData(Cur, i, chunk))

\* The response ends, the pipe ends the file stream, 'finish' is emitted.
End(i) ==
    /\ phase[i] = "stream"
    /\ Event(OnFinish(Cur, i))

\* A transport failure before any response.
RequestError(i) ==
    /\ phase[i] = "req"
    /\ Event(OnError(Cur, i))

\* The socket stayed idle for the timeout: before a response, while
\* streaming, or on a response that was rejected and never consumed.
Timeout(i) ==
    /\ phase[i] \in {"req", "stream", "unread"}
    /\ Event(OnTimeout(Cur, i))

\* 'error' (socket hang up) emitted by the request destroyed before a response.
DestroyError(i) ==
    /\ phase[i] = "destroyed"
    /\ Event(OnError(Cur, i))

\* 'finish' emitted by the file stream that the timeout handler closed.
FinishAfterClose(i) ==
    /\ phase[i] = "aborted"
    /\ Event(OnFinish(Cur, i))

\* The connection is closed before the body is complete.  The response gets
\* 'aborted', for which download() registers nothing: the pipe never ends
\* the file stream, the socket's timer is gone, the promise stays as it is.
PrematureClose(i) ==
    /\ phase[i] = "stream"
    /\ Event([Cur EXCEPT !.phase[i] = "hung"])

\* The server closes the connection of an unconsumed response.
SocketClose(i) ==
    /\ phase[i] = "unread"
    /\ Event([Cur EXCEPT !.phase[i] = "closed"])

\* The 2000 ms timer of the error handler: download(url, filename, retries - 1).
RetryTimer(i) ==
    /\ phase[i] = "backoff"
    /\ Event(download(Cur, i, retries[i] - 1))

\* The program is run again on the same report and directory, once the
\* previous process has exited: no timer, request or promise continuation
\* of it is pending any more.
Quiescent == \A i \in Items : phase[i] \in {"closed", "hung"}
Exited == Quiescent /\ (pc = "done" \/ (pc = "batch" /\ ~AllSettled))

NewProcess ==
    /\ Exited
    /\ run < MaxRuns
    /\ run' = run + 1
    /\ firstRun' = outcome
    /\ pc' = "start"
    /\ batchIndex' = 0
    /\ stats' = [total |-> 0, downloaded |-> 0, skipped |-> 0, failed |-> 0]
    /\ phase' = [i \in Items |-> "idle"]
    /\ retries' = [i \in Items |-> DefaultRetries]
    /\ downloadSize' = [i \in Items |-> 0]
    /\ linked' = [i \in Items |-> FALSE]
    /\ response' = [i \in Items |-> NoResponse]
    /\ outcome' = [i \in Items |-> "none"]
    /\ requests' = [i \in Items |-> 0]
    /\ UNCHANGED <<downloadList, concurrency, disk>>
    /\ UNCHANGED cliVars
    /\ UNCHANGED uriVars
    /\ UNCHANGED syncVars

ItemEvent ==
    \/ \E i \in Items : Response(i)
    \/ \E i \in Items : Data(i)
    \/ \E i \in Items : End(i)
    \/ \E i \in Items : RequestError(i)
    \/ \E i \in Items : Timeout(i)
    \/ \E i \in Items : DestroyError(i)
    \/ \E i \in Items : FinishAfterClose(i)
    \/ \E i \in Items : PrematureClose(i)
    \/ \E i \in Items : SocketClose(i)
    \/ \E i \in Items : RetryTimer(i)

\* One invocation of downloads() over a work list.
Next ==
    \/ StartRun
    \/ BatchDone
    \/ SleepDone
    \/ ItemEvent

Spec == Init /\ [][Next]_vars

\* The same, with the event loop running every callback that is pending and
\* every network attempt coming to one of its ends.
SpecLive == Init /\ [][Next]_vars /\ WF_vars(Next)

\* downloads(c) over work lists of up to MaxListLen items none of which has
\* a URL that isValidUrl accepts or a file at its destination: every item is
\* rejected by its executor, no request is issued and no callback of an item
\* ever runs, so the loop over the groups is all that happens.
RejectedReports(n) ==
    {<<[created |-> Created,
        attached_images |-> [k \in 1..n |-> [id |-> IdOf(k), original |-> u[k]]]]>> :
        u \in [1..n -> UrlKinds \ {HttpsUrl}]}

InitPartition ==
    /\ data \in UNION {RejectedReports(n) : n \in 0..MaxListLen}
    /\ downloadList = extract(data)
    /\ argc = 1
    /\ reportFile = [state |-> "ok", results |-> data]
    /\ destination = "directory"
    /\ exitCode = 0
    /\ diagnostic = "none"
    /\ NoUris
    /\ concurrency \in 1..MaxWidth
    /\ disk = [f \in {FileNamed(k) : k \in 1..MaxListLen} |-> NoFile]
    /\ stats = [total |-> 0, downloaded |-> 0, skipped |-> 0, failed |-> 0]
    /\ pc = "start"
    /\ batchIndex = 0
    /\ NoneStarted(downloadList)
    /\ run = 1
    /\ firstRun = [i \in DOMAIN downloadList |-> "none"]
    /\ NoSync

NextPartition ==
    \/ StartRun
    \/ BatchDone
    \/ SleepDone

SpecPartition == InitPartition /\ [][NextPartition]_vars

\* The program from its command line on: node src/downloads.js [report
\* [directory]], over reports of at most one record with at most one image.
NoImage == <<>>
CliReports ==
    {<<>>}
    \cup {<<[created |-> c, attached_images |-> NoImage]>> : c \in {Created}}
    \cup {<<[created |-> c, attached_images |-> <<[id |-> IdOf(1), original |-> u]>>]>> :
             c \in {Created, <<>>}, u \in UrlKinds \cup {<<>>}}

ListOf(results) == IF extractThrows(results) THEN <<>> ELSE extract(results)

InitCli ==
    /\ pc = "main"
    /\ argc \in 0..2
    /\ reportFile \in {[state |-> st, results |-> <<>>] : st \in {"missing", "malformed"}}
                       \cup {[state |-> "ok", results |-> r] : r \in CliReports}
    /\ data = <<>>
    /\ destination \in {"absent", "directory", "file"}
    /\ disk \in IF destination = "directory"
                THEN Directories(ListOf(reportFile.results))
                ELSE {[f \in Files |-> NoFile]}
    /\ exitCode = 0
    /\ diagnostic = "none"
    /\ NoUris
    /\ concurrency = DefaultConcurrency
    /\ downloadList = <<>>
    /\ stats = [total |-> 0, downloaded |-> 0, skipped |-> 0, failed |-> 0]
    /\ batchIndex = 0
    /\ NoneStarted(<<>>)
    /\ run = 1
    /\ firstRun = <<>>
    /\ NoSync

NextCli ==
    \/ Main
    \/ Setup
    \/ StartRun
    \/ BatchDone
    \/ ItemEvent

SpecCli == InitCli /\ [][NextCli]_vars

\* downloads() from its entry to the first downloadBatch call, over reports
\* of several records and images, and over reports of one image whose
\* timestamp, id and URL are spelled in several ways.
Created2 == <<"2", "0", "2", "4", "-", "0", "1", "-", "0", "2", "T", "0", "3", ":", "0", "4", ":", "0", "5">>
RecordsOf(created) ==
    {[created |-> created, attached_images |-> images] :
        images \in UNION {[1..n -> [id : {IdOf(1), IdOf(2)}, original : {<<>>, HttpUrl}]] :
                             n \in 0..MaxImages}}
StructReports ==
    UNION {{r \in [1..n -> RecordsOf(Created) \cup RecordsOf(Created2)] :
               \A k \in 1..n : r[k].created = IF k = 1 THEN Created ELSE Created2} :
           n \in 0..MaxRecords}

CreatedSpellings == {Created, <<"2", "0", "2", "3", "-", "1", "2", "-", "2", "5", "T", "1", "0", ":", "3", "0", ":", "4", "5", ".", "1", "2", "3", "Z">>, <<"2", "0", "2", "3", "-", "1", "2", "-", "2", "5", "T", "1", "0", ":", "3", "0", ":", "4", "5", "+", "0", "9", ":", "0", "0">>}
IdSpellings == {<<"1", "2", "3", "4", "5">>, <<"7">>}
UrlSpellings == {HttpsUrl, <<"h", "t", "t", "p", "s", ":", "/", "/", "h", "/", "a", ".", "p", "n", "g">>, <<"h", "t", "t", "p", "s", ":", "/", "/", "h", "/", "a", ".", "j", "p", "g", "?", "w", "=", "1">>, <<"h", "t", "t", "p", "s", ":", "/", "/", "h", ".", "i", "o", "/", "a">>, <<"h", "t", "t", "p", ":", "/", "/", "h", "/", "a", ".", "b", ".", "g", "i", "f">>}
StringReports ==
    {<<[created |-> c, attached_images |-> <<[id |-> i, original |-> u]>>]>> :
        c \in CreatedSpellings, i \in IdSpellings, u \in UrlSpellings}

InitExtract ==
    /\ pc = "setup"
    /\ data \in StructReports \cup StringReports
    /\ argc = 1
    /\ reportFile = [state |-> "ok", results |-> data]
    /\ destination \in {"absent", "directory"}
    /\ disk = [f \in {extract(data)[k].filename : k \in DOMAIN extract(data)} |-> NoFile]
    /\ exitCode = 0
    /\ diagnostic = "none"
    /\ NoUris
    /\ concurrency = DefaultConcurrency
    /\ downloadList = <<>>
    /\ stats = [total |-> 0, downloaded |-> 0, skipped |-> 0, failed |-> 0]
    /\ batchIndex = 0
    /\ NoneStarted(<<>>)
    /\ run = 1
    /\ firstRun = <<>>
    /\ NoSync

NextExtract ==
    \/ Setup
    \/ StartRun
    \/ BatchDone

SpecExtract == InitExtract /\ [][NextExtract]_vars

\* Reports of one record whose timestamp, image ids or image URLs may be
\* missing.
PartialReports ==
    {<<[created |-> c, attached_images |-> images]>> :
        c \in {Created, <<>>},
        images \in UNION {[1..n -> [id : {IdOf(1), <<>>}, original : {<<>>, HttpUrl, HttpsUrl}]] :
                             n \in 1..MaxImages}}

InitPartial ==
    /\ pc = "setup"
    /\ data \in PartialReports
    /\ argc = 1
    /\ reportFile = [state |-> "ok", results |-> data]
    /\ destination \in {"absent", "directory"}
    /\ disk = [f \in {ListOf(data)[k].filename : k \in DOMAIN ListOf(data)} |-> NoFile]
    /\ exitCode = 0
    /\ diagnostic = "none"
    /\ NoUris
    /\ concurrency = DefaultConcurrency
    /\ downloadList = <<>>
    /\ stats = [total |-> 0, downloaded |-> 0, skipped |-> 0, failed |-> 0]
    /\ batchIndex = 0
    /\ NoneStarted(<<>>)
    /\ run = 1
    /\ firstRun = <<>>
    /\ NoSync

SpecPartial == InitPartial /\ [][NextExtract]_vars

\* Timestamp sync: updateFileDates on each of the paths it is given, once,
\* in any order (the single file of file mode, the files of the workers).
SyncNames == {<<"2", "0", "2", "3", "1", "2", "2", "5", "-", "1", "0", "3", "0", "4", "5", "-", "7", ".", "j", "p", "g">>, <<"2", "0", "2", "4", "0", "1", "0", "2", "-", "0", "3", "0", "4", "0", "5", "-", "1", "2", ".", "P", "N", "G">>, <<"2", "0", "2", "3", "1", "2", "2", "5", "-", "1", "0", "3", "0", "4", "5", "-", "7", ".", "j", "p", "g", "?", "w", "=", "1">>, <<"n", "o", "t", "e", "s", ".", "t", "x", "t">>, <<"2", "0", "2", "3", "1", "2", "2", "5", "-", "1", "0", "3", "0", "-", "7", ".", "j", "p", "g">>, <<"2", "0", "2", "3", "1", "2", "2", "5", "-", "1", "0", "3", "0", "4", "5", "-", "7">>}
Date(y, mo, d, h, mi, sec, ms) ==
    [year |-> y, month |-> mo, day |-> d, hours |-> h, minutes |-> mi,
     seconds |-> sec, ms |-> ms]
SyncDates == {Date(2023, 11, 25, 10, 30, 45, 0), Date(2023, 11, 25, 10, 30, 45, 500),
              Date(2024, 0, 2, 3, 4, 5, 0)}
SyncStats == {NoStat} \cup {Stat(b, m) : b \in SyncDates, m \in SyncDates}

UpdateFileDates(k) ==
    /\ pc = "sync"
    /\ messages[k] = NoMessage
    /\ \E execOk \in BOOLEAN :
          LET r == updateFileDates(allFiles[k], fileStats[k], execOk) IN
          /\ messages' = [messages EXCEPT ![k] = r.result]
          /\ fileStats' = [fileStats EXCEPT ![k] = r.stat]
          /\ setFileCalls' = [setFileCalls EXCEPT ![k] = @ + (IF r.invoked THEN 1 ELSE 0)]
    /\ UNCHANGED <<allFiles, downloadList, concurrency, disk, stats, pc, batchIndex,
                   phase, retries, downloadSize, linked, response, outcome, requests,
                   run, firstRun>>
    /\ UNCHANGED cliVars
    /\ UNCHANGED uriVars
    /\ UNCHANGED dirVars

InitSync ==
    /\ pc = "sync"
    /\ allFiles \in UNION {{f \in [1..n -> SyncNames] :
                                \A j \in 1..n : \A k \in 1..n : f[j] = f[k] => j = k} :
                            n \in 1..MaxSyncFiles}
    /\ fileStats \in [DOMAIN allFiles -> SyncStats]
    /\ messages = [k \in DOMAIN allFiles |-> NoMessage]
    /\ setFileCalls = [k \in DOMAIN allFiles |-> 0]
    /\ numCPUs = 1
    /\ NoWorkers
    /\ downloadList = <<>>
    /\ concurrency = DefaultConcurrency
    /\ disk = [f \in Files |-> NoFile]
    /\ stats = [total |-> 0, downloaded |-> 0, skipped |-> 0, failed |-> 0]
    /\ batchIndex = 0
    /\ NoneStarted(<<>>)
    /\ run = 1
    /\ firstRun = <<>>
    /\ argc = 1
    /\ reportFile = [state |-> "missing", results |-> <<>>]
    /\ data = <<>>
    /\ destination = "directory"
    /\ exitCode = 0
    /\ diagnostic = "none"
    /\ NoUris

NextSync == \E k \in DOMAIN allFiles : UpdateFileDates(k)

SpecSync == InitSync /\ [][NextSync]_vars

\* Timestamp sync on a directory: the main thread splits the files found
\* among worker threads, each worker runs updateFileDates on its files and
\* posts one message per file, the main thread counts the messages and
\* prints the summary when the last worker's exit is handled.  Messages of
\* a worker are received in the order posted, and all of them before its
\* 'exit' event.
DirNames == {<<"2", "0", "2", "3", "1", "2", "2", "5", "-", "1", "0", "3", "0", "4", "5", "-", "7", ".", "j", "p", "g">>, <<"d", "/", "2", "0", "2", "3", "1", "2", "2", "5", "-", "1", "0", "3", "0", "4", "5", "-", "7", ".", "j", "p", "g">>, <<"n", "o", "t", "e", "s", ".", "t", "x", "t">>}
DirStats == {Stat(Date(2023, 11, 25, 10, 30, 45, 0), Date(2023, 11, 25, 10, 30, 45, 0)),
             Stat(Date(2024, 0, 2, 3, 4, 5, 0), Date(2024, 0, 2, 3, 4, 5, 0))}

\* chunkArray(array, parts) of sync_date_from_filename: array[i] goes to
\* result[i % parts].
chunkArrayByParts_firstTakesAll(array, parts) ==
    [j \in 1..parts |-> IF j = 1 THEN array ELSE <<>>]
chunkArrayByParts(array, parts) ==
    [j \in 1..parts |->
        [m \in 1..Cardinality({i \in 1..Len(array) : (i - 1) % parts = j - 1}) |->
            array[j + (m - 1) * parts]]]

IndexOfPath(filePath) == CHOOSE k \in DOMAIN allFiles : allFiles[k] = filePath

StartWorkers ==
    /\ pc = "dir"
    /\ IF Len(allFiles) = 0
       THEN /\ pc' = "exit"
            /\ exitCode' = 0
            /\ diagnostic' = "no files"
            /\ UNCHANGED <<numWorkers, fileChunks, workers, coordinator>>
       ELSE /\ pc' = "workers"
            /\ numWorkers' = Min(numCPUs, Len(allFiles))
            /\ fileChunks' = chunkArrayByParts(allFiles, Min(numCPUs, Len(allFiles)))
            /\ LET empty == {w \in 1..Min(numCPUs, Len(allFiles)) :
                                Len(chunkArrayByParts(allFiles, Min(numCPUs, Len(allFiles)))[w]) = 0}
               IN /\ workers' = [w \in 1..Min(numCPUs, Len(allFiles)) |->
                                    [next |-> 1, port |-> <<>>,
                                     status |-> IF w \in empty THEN "none" ELSE "running"]]
                  /\ coordinator' = [coordinator EXCEPT
                                        !.workersFinished = Cardinality(empty)]
            /\ UNCHANGED <<exitCode, diagnostic>>
    /\ UNCHANGED <<allFiles, fileStats, messages, setFileCalls, numCPUs,
                   downloadList, concurrency, disk, stats, batchIndex,
                   phase, retries, downloadSize, linked, response, outcome, requests,
                   run, firstRun, argc, reportFile, data, destination>>
    /\ UNCHANGED uriVars

\* The worker thread: one round of files.forEach.
WorkerStep(w) ==
    /\ pc = "workers"
    /\ workers[w].status = "running"
    /\ workers[w].next <= Len(fileChunks[w])
    /\ \E execOk \in BOOLEAN :
          LET filePath == fileChunks[w][workers[w].next]
              k == IndexOfPath(filePath)
              r == updateFileDates(filePath, fileStats[k], execOk)
          IN /\ messages' = [messages EXCEPT ![k] = r.result]
             /\ fileStats' = [fileStats EXCEPT ![k] = r.stat]
             /\ setFileCalls' = [setFileCalls EXCEPT ![k] = @ + (IF r.invoked THEN 1 ELSE 0)]
             /\ workers' = [workers EXCEPT
                               ![w].next = @ + 1,
                               ![w].port = Append(@, [success |-> r.result.success,
                                                      reason |-> r.result.reason,
                                                      skipped |-> r.result.skipped,
                                                      filename |-> basename(filePath)])]
    /\ UNCHANGED <<allFiles, numCPUs, numWorkers, fileChunks, coordinator, pc,
                   downloadList, concurrency, disk, stats, batchIndex,
                   phase, retries, downloadSize, linked, response, outcome, requests,
                   run, firstRun>>
    /\ UNCHANGED cliVars
    /\ UNCHANGED uriVars

\* The worker thread has gone through its files and stops.
WorkerStop(w) ==
    /\ pc = "workers"
    /\ workers[w].status = "running"
    /\ workers[w].next > Len(fileChunks[w])
    /\ workers' = [workers EXCEPT ![w].status = "stopped"]
    /\ UNCHANGED <<allFiles, fileStats, messages, setFileCalls, numCPUs, numWorkers,
                   fileChunks, coordinator, pc,
                   downloadList, concurrency, disk, stats, batchIndex,
                   phase, retries, downloadSize, linked, response, outcome, requests,
                   run, firstRun>>
    /\ UNCHANGED cliVars
    /\ UNCHANGED uriVars

OnMessage_listAll(w) ==
    /\ pc = "workers"
    /\ workers[w].port # <<>>
    /\ LET message == Head(workers[w].port) IN
       coordinator' =
          [coordinator EXCEPT
             !.completed = @ + 1,
             !.successCount = IF message.success THEN @ + 1 ELSE @,
             !.skipCount = IF ~message.success /\ message.skipped THEN @ + 1 ELSE @,
             !.failCount = IF ~message.success /\ ~message.skipped THEN @ + 1 ELSE @,
             !.failList = Append(@, message)]
    /\ workers' = [workers EXCEPT ![w].port = Tail(@)]
    /\ UNCHANGED <<allFiles, fileStats, messages, setFileCalls, numCPUs, numWorkers,
                   fileChunks, pc,
                   downloadList, concurrency, disk, stats, batchIndex,
                   phase, retries, downloadSize, linked, response, outcome, requests,
                   run, firstRun>>
    /\ UNCHANGED cliVars
    /\ UNCHANGED uriVars

\* worker.on("message")
OnMessage(w) ==
    /\ pc = "workers"
    /\ workers[w].port # <<>>
    /\ LET message == Head(workers[w].port) IN
       coordinator' =
          [coordinator EXCEPT
             !.completed = @ + 1,
             !.successCount = IF message.success THEN @ + 1 ELSE @,
             !.skipCount = IF ~message.success /\ message.skipped THEN @ + 1 ELSE @,
             !.failCount = IF ~message.success /\ ~message.skipped THEN @ + 1 ELSE @,
             !.failList = IF message.success THEN @ ELSE Append(@, message)]
    /\ workers' = [workers EXCEPT ![w].port = Tail(@)]
    /\ UNCHANGED <<allFiles, fileStats, messages, setFileCalls, numCPUs, numWorkers,
                   fileChunks, pc,
                   downloadList, concurrency, disk, stats, batchIndex,
                   phase, retries, downloadSize, linked, response, outcome, requests,
                   run, firstRun>>
    /\ UNCHANGED cliVars
    /\ UNCHANGED uriVars

OnExit_beforeMessages(w) ==
    /\ pc = "workers"
    /\ workers[w].status = "stopped"
    /\ workers' = [workers EXCEPT ![w].status = "exited"]
    /\ coordinator' =
          [coordinator EXCEPT
             !.workersFinished = @ + 1,
             !.summaries = IF coordinator.workersFinished + 1 = numWorkers
                           THEN @ + 1 ELSE @]
    /\ pc' = IF \A v \in DOMAIN workers : v # w => workers[v].status \in {"exited", "none"}
             THEN "exit" ELSE pc
    /\ UNCHANGED <<allFiles, fileStats, messages, setFileCalls, numCPUs, numWorkers,
                   fileChunks,
                   downloadList, concurrency, disk, stats, batchIndex,
                   phase, retries, downloadSize, linked, response, outcome, requests,
                   run, firstRun>>
    /\ UNCHANGED cliVars
    /\ UNCHANGED uriVars

\* worker.on("exit"): the last one prints the list and the summary, and
\* with nothing left to wait for the process ends.
OnExit(w) ==
    /\ pc = "workers"
    /\ workers[w].status = "stopped"
    /\ workers[w].port = <<>>
    /\ workers' = [workers EXCEPT ![w].status = "exited"]
    /\ coordinator' =
          [coordinator EXCEPT
             !.workersFinished = @ + 1,
             !.summaries = IF coordinator.workersFinished + 1 = numWorkers
                           THEN @ + 1 ELSE @]
    /\ pc' = IF \A v \in DOMAIN workers : v # w => workers[v].status \in {"exited", "none"}
             THEN "exit" ELSE pc
    /\ UNCHANGED <<allFiles, fileStats, messages, setFileCalls, numCPUs, numWorkers,
                   fileChunks,
                   downloadList, concurrency, disk, stats, batchIndex,
                   phase, retries, downloadSize, linked, response, outcome, requests,
                   run, firstRun>>
    /\ UNCHANGED cliVars
    /\ UNCHANGED uriVars

InitSyncDir ==
    /\ pc = "dir"
    /\ allFiles \in UNION {{f \in [1..n -> DirNames] :
                                \A j \in 1..n : \A k \in 1..n : f[j] = f[k] => j = k} :
                            n \in 0..MaxDirFiles}
    /\ fileStats \in [DOMAIN allFiles -> DirStats]
    /\ messages = [k \in DOMAIN allFiles |-> NoMessage]
    /\ setFileCalls = [k \in DOMAIN allFiles |-> 0]
    /\ numCPUs \in 1..MaxCPUs
    /\ NoWorkers
    /\ downloadList = <<>>
    /\ concurrency = DefaultConcurrency
    /\ disk = [f \in Files |-> NoFile]
    /\ stats = [total |-> 0, downloaded |-> 0, skipped |-> 0, failed |-> 0]
    /\ batchIndex = 0
    /\ NoneStarted(<<>>)
    /\ run = 1
    /\ firstRun = <<>>
    /\ argc = 1
    /\ reportFile = [state |-> "missing", results |-> <<>>]
    /\ data = <<>>
    /\ destination = "directory"
    /\ exitCode = 0
    /\ diagnostic = "none"
    /\ NoUris

NextSyncDir ==
    \/ StartWorkers
    \/ \E w \in DOMAIN workers : WorkerStep(w)
    \/ \E w \in DOMAIN workers : WorkerStop(w)
    \/ \E w \in DOMAIN workers : OnMessage(w)
    \/ \E w \in DOMAIN workers : OnExit(w)

SpecSyncDir == InitSyncDir /\ [][NextSyncDir]_vars
SpecSyncDirLive == InitSyncDir /\ [][NextSyncDir]_vars /\ WF_vars(NextSyncDir)

\* The URL builders centers.js and notices.js, each called once on an
\* info.json and a center document.
CentersApi == <<"h", "t", "t", "p", "s", ":", "/", "/", "w", "w", "w", ".", "k", "i", "d", "s", "n", "o", "t", "e", ".", "c", "o", "m", "/", "a", "p", "i", "/", "v", "1", "/", "c", "e", "n", "t", "e", "r", "s", "/">>
NoticesPath == <<"/", "n", "o", "t", "i", "c", "e", "s">>
ClsParam == <<"?", "c", "l", "s", "=">>
TzAndPageSize == <<"&", "t", "z", "=", "A", "s", "i", "a", "%", "2", "F", "S", "e", "o", "u", "l", "&", "p", "a", "g", "e", "_", "s", "i", "z", "e", "=">>
DateParam == <<"&", "d", "a", "t", "e", "=">>
Today == <<"2", "0", "2", "6", "-", "1", "1", "-", "0", "6">>

\* toDateString(dateInput): nothing for no input, a YYYY-MM-DD string as it
\* is, nothing for a string that is no date.
toDateString(dateInput) ==
    IF dateInput = <<>> THEN <<>>
    ELSE IF /\ Len(dateInput) = 10
            /\ \A k \in {1, 2, 3, 4, 6, 7, 9, 10} : dateInput[k] \in Digits
            /\ dateInput[5] = "-" /\ dateInput[8] = "-"
    THEN dateInput
    ELSE <<>>

\* generateCenterURIs(infoPath), with the info file read.
RECURSIVE AddAll(_, _)
AddAll(centerIds, ids) ==
    IF ids = <<>> THEN centerIds
    ELSE AddAll(IF \E k \in DOMAIN centerIds : centerIds[k] = Head(ids)
                THEN centerIds ELSE Append(centerIds, Head(ids)),
                Tail(ids))

CenterIdsOf(child) ==
    IF child.hasEnrollment
    THEN LET found == SelectSeq(child.enrollment, LAMBDA enrollment : enrollment.center_id # 0)
         IN [k \in DOMAIN found |-> found[k].center_id]
    ELSE <<>>

\* info.children.forEach over the ids of each child, in order.
RECURSIVE CenterIdsIn(_)
CenterIdsIn(children) ==
    IF children = <<>> THEN <<>>
    ELSE CenterIdsOf(Head(children)) \o CenterIdsIn(Tail(children))

generateCenterURIs_keepAll(i) ==
    LET centerIds == CenterIdsIn(i.children) IN
    IF ~i.hasChildren \/ Len(centerIds) = 0
    THEN [call |-> "centers", threw |-> TRUE, list |-> <<>>]
    ELSE [call |-> "centers", threw |-> FALSE,
          list |-> [k \in DOMAIN centerIds |-> CentersApi \o String(centerIds[k])]]

generateCenterURIs(i) ==
    LET centerIds == AddAll(<<>>, CenterIdsIn(i.children)) IN
    IF ~i.hasChildren \/ Len(centerIds) = 0
    THEN [call |-> "centers", threw |-> TRUE, list |-> <<>>]
    ELSE [call |-> "centers", threw |-> FALSE,
          list |-> [k \in DOMAIN centerIds |-> CentersApi \o String(centerIds[k])]]

\* generateNoticeURIs(infoPath, centerPath, pageSize = 9999, date), with
\* both files read.  A missing children or enrollment array is a TypeError.
NoticeUrlsOf(child, c, size, dateStr) ==
    LET own == SelectSeq(child.enrollment, LAMBDA enrollment : enrollment.center_id = c.id)
    IN [k \in DOMAIN own |->
           CentersApi \o String(c.id) \o NoticesPath \o ClsParam
               \o String(own[k].belong_to_class) \o TzAndPageSize \o String(size)
               \o (IF dateStr # <<>> THEN DateParam \o dateStr ELSE <<>>)]

RECURSIVE NoticeUrlsIn(_, _, _, _)
NoticeUrlsIn(children, c, size, dateStr) ==
    IF children = <<>> THEN <<>>
    ELSE NoticeUrlsOf(Head(children), c, size, dateStr)
             \o NoticeUrlsIn(Tail(children), c, size, dateStr)

generateNoticeURIs(i, c, size, d) ==
    LET effective == IF size = 0 THEN DefaultPageSize ELSE size
        dateStr == IF toDateString(d) # <<>> THEN toDateString(d) ELSE toDateString(Today)
    IN IF ~i.hasChildren \/ \E k \in DOMAIN i.children : ~i.children[k].hasEnrollment
       THEN [call |-> "notices", threw |-> TRUE, list |-> <<>>]
       ELSE [call |-> "notices", threw |-> FALSE,
             list |-> NoticeUrlsIn(i.children, c, effective, dateStr)]

Enrollments ==
    UNION {[1..n -> [center_id : 0..2, belong_to_class : {7, 8}]] : n \in 0..MaxEnrollments}
Children ==
    {[hasEnrollment |-> FALSE, enrollment |-> <<>>]}
    \cup {[hasEnrollment |-> TRUE, enrollment |-> e] : e \in Enrollments}
Infos ==
    {[hasChildren |-> FALSE, children |-> <<>>]}
    \cup {[hasChildren |-> TRUE, children |-> c] :
             c \in UNION {[1..n -> Children] : n \in 0..MaxChildren}}

GenerateCenterURIs ==
    /\ pc = "uris"
    /\ uris' = generateCenterURIs(info)
    /\ pc' = "exit"
    /\ UNCHANGED <<info, center, pageSize, noticeDate,
                   downloadList, concurrency, disk, stats, batchIndex,
                   phase, retries, downloadSize, linked, response, outcome, requests,
                   run, firstRun>>
    /\ UNCHANGED <<argc, reportFile, data, destination, exitCode, diagnostic>>
    /\ UNCHANGED syncVars

GenerateNoticeURIs ==
    /\ pc = "uris"
    /\ uris' = generateNoticeURIs(info, center, pageSize, noticeDate)
    /\ pc' = "exit"
    /\ UNCHANGED <<info, center, pageSize, noticeDate,
                   downloadList, concurrency, disk, stats, batchIndex,
                   phase, retries, downloadSize, linked, response, outcome, requests,
                   run, firstRun>>
    /\ UNCHANGED <<argc, reportFile, data, destination, exitCode, diagnostic>>
    /\ UNCHANGED syncVars

InitUris ==
    /\ pc = "uris"
    /\ info \in Infos
    /\ center \in {[id |-> 1], [id |-> 2]}
    /\ pageSize \in {0, DocumentedPageSize}
    /\ noticeDate \in {<<>>, <<"2", "0", "2", "5", "-", "0", "9", "-", "0", "7">>, <<"i", "n", "v", "a", "l", "i", "d">>}
    /\ uris = [call |-> "none", threw |-> FALSE, list |-> <<>>]
    /\ NoSync
    /\ downloadList = <<>>
    /\ concurrency = DefaultConcurrency
    /\ disk = [f \in Files |-> NoFile]
    /\ stats = [total |-> 0, downloaded |-> 0, skipped |-> 0, failed |-> 0]
    /\ batchIndex = 0
    /\ NoneStarted(<<>>)
    /\ run = 1
    /\ firstRun = <<>>
    /\ argc = 1
    /\ reportFile = [state |-> "missing", results |-> <<>>]
    /\ data = <<>>
    /\ destination = "directory"
    /\ exitCode = 0
    /\ diagnostic = "none"

NextUris ==
    \/ GenerateCenterURIs
    \/ GenerateNoticeURIs

SpecUris == InitUris /\ [][NextUris]_vars

\* The program run on a report of one image, and run again afterwards.
NextFetch ==
    \/ StartRun
    \/ BatchDone
    \/ NewProcess
    \/ ItemEvent

SpecFetch == InitFetch /\ [][NextFetch]_vars

\* ------------------------------------------------------------------ claims
Processed == stats.downloaded + stats.skipped + stats.failed
InFlight == {i \in Items : phase[i] \in {"req", "stream", "backoff"}}
FileOf(i) == disk[filenameOf(i)]
HasValidFile(i) == FileOf(i).exists /\ FileOf(i).size >= 100

\* C1: when downloads() completes, every work item has been counted in
\* exactly one of downloaded/skipped/failed exactly once, so the three
\* counters add up to total.
C1_CountersAddUpAtCompletion ==
    [][(pc # "done" /\ pc' = "done") =>
          stats'.downloaded + stats'.skipped + stats'.failed = stats'.total]_vars

\* C2: no fetch of a later group is started while a fetch of an earlier
\* group still has a request, a stream or a retry backoff under way.
C2_GroupsDoNotOverlap ==
    \A i \in Items : \A j \in Items :
        (BatchOf(i) < BatchOf(j) /\ phase[j] # "idle")
            => phase[i] \notin {"req", "stream", "backoff"}

\* C3: at every moment the number of fetches in flight (request issued,
\* streaming, or waiting in retry backoff) is at most the concurrency width.
C3_InFlightAtMostConcurrency == Cardinality(InFlight) <= concurrency

InvalidUrl(i) == downloadList[i].url # HttpsUrl

\* C6 (as stated): an item whose URL does not parse or is not https ends
\* Failed(InvalidSource) with no request, whatever the destination holds.
C6_InvalidSourceWhateverTheDirectory ==
    \A i \in Items :
        (InvalidUrl(i) /\ outcome[i] # "none")
            => outcome[i] = "InvalidSource" /\ requests[i] = 0

\* C6 (amended): for an item whose URL does not parse or is not https no
\* request is issued, nothing is retried and the directory is left as it
\* was; the outcome is Failed(InvalidSource) unless a file of at least 100
\* bytes is at the destination, in which case it is Skipped.
C6_InvalidSourceUnlessSkipped ==
    /\ [](\A i \in Items :
            InvalidUrl(i) => /\ requests[i] = 0
                             /\ phase[i] \in {"idle", "closed"}
                             /\ retries[i] = 3
                             /\ outcome[i] = "InvalidSource" => ~HasValidFile(i)
                             /\ outcome[i] = "skipped" => HasValidFile(i))
    /\ [][\A i \in Items :
            InvalidUrl(i) =>
                /\ disk' = disk
                /\ (phase[i] = "idle" /\ phase'[i] # "idle")
                      => outcome'[i] \in {"InvalidSource", "skipped"}]_vars

C6_RejectedWithoutTouchingFile ==
    \E i \in Items : /\ downloadList[i].url = HttpUrl
                     /\ outcome[i] = "InvalidSource"
                     /\ FileOf(i) = File(99)
                     /\ stats.failed = 1

\* C7: a fetch that starts with a file of at least 100 bytes at its
\* destination ends Skipped, issues no request then or later and leaves the
\* file as it is; with a file of 99 bytes or less it is not skipped.
C7_SkipExistingFile ==
    /\ [][\A i \in Items :
            (phase[i] = "idle" /\ phase'[i] # "idle") =>
                IF FileOf(i).exists /\ FileOf(i).size >= 100
                THEN /\ outcome'[i] = "skipped"
                     /\ phase'[i] = "closed"
                     /\ requests'[i] = 0
                     /\ disk' = disk
                     /\ stats'.skipped = stats.skipped + 1
                ELSE outcome'[i] # "skipped"]_vars
    /\ [][\A i \in Items :
            (outcome[i] = "skipped" /\ requests[i] = 0) =>
                requests'[i] = 0 /\ disk' = disk]_vars

C7_SkippedAtExactly100 ==
    \E i \in Items : /\ run = 1
                     /\ outcome[i] = "skipped"
                     /\ FileOf(i) = File(100)
                     /\ requests[i] = 0

DeclaredTooSmall(i) ==
    /\ response[i].statusCode = 200
    /\ response[i].contentLength > 0
    /\ response[i].contentLength < 100

\* C8: a 200 response that declares a content length of 1..99 bytes makes
\* the item's outcome Failed(SizeViolation); no further request follows and
\* no file is at the destination.
C8_DeclaredSizeViolation ==
    /\ [](\A i \in Items :
            DeclaredTooSmall(i) => /\ outcome[i] = "SizeViolation"
                                   /\ phase[i] \in {"unread", "closed"}
                                   /\ ~FileOf(i).exists)
    /\ [][\A i \in Items :
            DeclaredTooSmall(i) =>
                (requests'[i] = requests[i] /\ DeclaredTooSmall(i)') \/ run' # run]_vars

\* The part of C8 that the code keeps: the attempt is rejected, not retried
\* and its file unlinked; the item's outcome is SizeViolation unless the
\* response belongs to a retry made after the item had failed with Timeout.
C8_SizeViolationUnlessTimedOut ==
    /\ [](\A i \in Items :
            DeclaredTooSmall(i) => /\ outcome[i] \in {"SizeViolation", "Timeout"}
                                   /\ phase[i] \in {"unread", "closed"}
                                   /\ ~FileOf(i).exists)
    /\ [][\A i \in Items :
            DeclaredTooSmall(i) =>
                (requests'[i] = requests[i] /\ DeclaredTooSmall(i)') \/ run' # run]_vars

C8_SizeViolationWithBudgetLeft ==
    \E i \in Items : /\ response[i] = [statusCode |-> 200, contentLength |-> 50]
                     /\ outcome[i] = "SizeViolation"
                     /\ retries[i] = 3
                     /\ phase[i] = "closed"
                     /\ ~FileOf(i).exists

BadStatus(i) == response[i].statusCode \notin {0, 200}

\* C9: a response whose status is not 200 fails the item with HttpError; no
\* further request is issued for it although retries remain, and the
\* attempt's file is deleted.
C9_HttpErrorIsTerminal ==
    /\ [](\A i \in Items :
            BadStatus(i) => /\ outcome[i] = "HttpError"
                            /\ phase[i] \in {"unread", "closed"}
                            /\ ~FileOf(i).exists)
    /\ [][\A i \in Items :
            BadStatus(i) =>
                (requests'[i] = requests[i] /\ BadStatus(i)') \/ run' # run]_vars

\* The part of C9 that the code keeps: the attempt is rejected, not retried
\* and its file unlinked; the item's outcome is HttpError unless the
\* response belongs to a retry made after the item had failed with Timeout.
C9_HttpErrorUnlessTimedOut ==
    /\ [](\A i \in Items :
            BadStatus(i) => /\ outcome[i] \in {"HttpError", "Timeout"}
                            /\ phase[i] \in {"unread", "closed"}
                            /\ ~FileOf(i).exists)
    /\ [][\A i \in Items :
            BadStatus(i) =>
                (requests'[i] = requests[i] /\ BadStatus(i)') \/ run' # run]_vars

C9_HttpErrorWithBudgetLeft ==
    \E i \in Items : /\ response[i].statusCode = 404
                     /\ outcome[i] = "HttpError"
                     /\ retries[i] = 3
                     /\ requests[i] = 1
                     /\ phase[i] = "closed"
                     /\ ~FileOf(i).exists

\* C10: once an item has ended Failed(Timeout), no further attempt is made
\* for it: no retry is scheduled and no request is under way.
C10_TimeoutIsNotRetried ==
    \A i \in Items :
        outcome[i] = "Timeout" => phase[i] \notin {"backoff", "req", "stream"}

\* C11: once an item that issued a request has ended in a failure and
\* nothing of it is under way any more, its destination path holds no file or
\* a file of at least 100 bytes: no empty, partial or undersized file stays.
C11_NoPartialFileAfterFailure ==
    \A i \in Items :
        (outcome[i] \in Failures /\ phase[i] = "closed" /\ requests[i] > 0)
            => (~FileOf(i).exists \/ FileOf(i).size >= 100)

\* The part of C11 that the code keeps: the same, for the failures other
\* than Timeout.
C11_NoPartialFileUnlessTimedOut ==
    \A i \in Items :
        (outcome[i] \in Failures \ {"Timeout"} /\ phase[i] = "closed" /\ requests[i] > 0)
            => ~FileOf(i).exists

C13_DownloadsCompletes ==
    <>(pc = "done" /\ \A i \in Items : outcome[i] # "none")

\* The part of C13 that the code keeps: downloads() completes unless the
\* connection of an unsettled item is closed in the middle of its body.
C13_CompletesUnlessCutShort ==
    <>(\/ pc = "done" /\ \A i \in Items : outcome[i] # "none"
       \/ \E i \in Items : phase[i] = "hung" /\ outcome[i] = "none")

RECURSIVE Concat(_)
Concat(groups) ==
    IF groups = <<>> THEN <<>> ELSE Head(groups) \o Concat(Tail(groups))

\* C14: chunkArray(downloadList, concurrency) has ceil(n/c) groups, each but
\* the last of exactly c items and the last of 1..c; the groups in order,
\* put end to end, are the work list; the empty list gives no group.  The
\* groups downloads() works through are these, by position.
C14_PartitionIntoGroups ==
    LET groups == chunkArray(downloadList, concurrency)
        n == Len(downloadList)
        c == concurrency
    IN /\ Len(groups) = (n + c - 1) \div c
       /\ \A k \in 1..(Len(groups) - 1) : Len(groups[k]) = c
       /\ Len(groups) > 0 => Len(groups[Len(groups)]) \in 1..c
       /\ Concat(groups) = downloadList
       /\ n = 0 => groups = <<>>
       /\ Len(batches) = Len(groups)
       /\ \A k \in 1..Len(groups) : \A m \in 1..Len(groups[k]) :
             groups[k][m] = downloadList[batches[k][m]]
       /\ pc \in {"batch", "sleep"} => batchIndex \in 0..(Len(groups) - 1)

C14_FiveItemsInGroupsOfTwo ==
    /\ Len(downloadList) = 5
    /\ concurrency = 2
    /\ pc = "done"
    /\ batchIndex = 2
    /\ [k \in 1..Len(batches) |-> Len(batches[k])] = <<2, 2, 1>>
    /\ stats.failed = 5

\* C15: a fetch is started only once the destination is a directory; when
\* the destination path is taken by something that is not a directory, the
\* run ends fatally (exit status 1 with a diagnostic) with no work item
\* created, no fetch started, no request made and every counter still zero.
NoFetchStarted ==
    \A i \in DOMAIN phase : phase[i] = "idle" /\ requests[i] = 0 /\ outcome[i] = "none"

NoCounterChanged ==
    stats = [total |-> 0, downloaded |-> 0, skipped |-> 0, failed |-> 0]

C15_DirectoryBeforeFetch ==
    /\ (\E i \in DOMAIN phase : phase[i] # "idle" \/ requests[i] > 0 \/ outcome[i] # "none")
          => destination = "directory"
    /\ pc \in {"start", "batch", "sleep", "done"} => destination = "directory"
    /\ destination = "file"
          => /\ NoFetchStarted
             /\ downloadList = <<>>
             /\ NoCounterChanged
             /\ pc = "exit" => exitCode = 1 /\ diagnostic # "none"
             /\ pc = "exit" /\ argc > 0 /\ reportFile.state = "ok" => diagnostic = "fatal"

C15_FatalOnOccupiedDestination ==
    /\ destination = "file"
    /\ pc = "exit"
    /\ diagnostic = "fatal"
    /\ \E k \in DOMAIN ListOf(data) : ListOf(data)[k].url = HttpsUrl

\* C16: no two work items of a run whose destination path is the same have
\* a write stream open at the same time (the stream is opened on entry to
\* download() and is open while the request or the body is under way).
WriteOpen(i) == phase[i] \in {"req", "stream"}

C16_OneWriterPerPath ==
    \A i \in Items : \A j \in Items :
        i # j /\ downloadList[i].filename = downloadList[j].filename
            => ~(WriteOpen(i) /\ WriteOpen(j))

\* C17: when the report argument is omitted, the report file is missing, its
\* JSON is malformed, or the destination path is taken by a non-directory,
\* the process gets no further than setup: no work item exists, no fetch is
\* started, and once it has ended its exit status is not 0 and a diagnostic
\* was written.
SetupError ==
    \/ argc = 0
    \/ reportFile.state \in {"missing", "malformed"}
    \/ destination = "file"

C17_SetupErrorsExitNonZero ==
    SetupError
        => /\ pc \in {"main", "setup", "exit"}
           /\ downloadList = <<>>
           /\ \A i \in DOMAIN phase : phase[i] = "idle" /\ requests[i] = 0
           /\ pc = "exit" => exitCode # 0 /\ diagnostic # "none"

C17_MalformedReportExits ==
    /\ argc > 0
    /\ reportFile.state = "malformed"
    /\ pc = "exit"
    /\ exitCode = 1
    /\ diagnostic = "load failed"

\* The other three setup errors are reached as well.
C17_UsageExits == argc = 0 /\ pc = "exit" /\ diagnostic = "usage"
C17_MissingReportExits ==
    argc > 0 /\ reportFile.state = "missing" /\ pc = "exit" /\ diagnostic = "not found"

\* C18: the filename of a work item is the record's creation timestamp as
\* YYYYMMDD-HHMMSS, then "-", the image id, and the extension of the URL's
\* path, or ".jpg" when that path has none.  Stated for reports of one image,
\* whose creation timestamp is ISO 8601 (YYYY-MM-DDTHH:MM:SS and what follows).
ListBuilt == pc \in {"start", "batch", "sleep", "done"}

OneImage ==
    /\ Len(data) = 1
    /\ Len(data[1].attached_images) = 1
    /\ data[1].attached_images[1].original # <<>>

DateTimeToken(c) ==
    <<c[1], c[2], c[3], c[4], c[6], c[7], c[9], c[10], "-",
      c[12], c[13], c[15], c[16], c[18], c[19]>>

\* The path of an http(s) URL: after the authority, up to "?" or "#".
UrlPath(url) ==
    LET rest == SubSeq(url, IndexOf(url, ":") + 3, Len(url))
        cut == {k \in 1..Len(rest) : rest[k] \in {"?", "#"}}
        upTo == IF cut = {} THEN Len(rest)
                ELSE (CHOOSE k \in cut : \A j \in cut : k <= j) - 1
        hostAndPath == SubSeq(rest, 1, upTo)
    IN IF IndexOf(hostAndPath, "/") = 0 THEN <<>>
       ELSE SubSeq(hostAndPath, IndexOf(hostAndPath, "/"), Len(hostAndPath))

UrlExtension(url) ==
    LET path == UrlPath(url)
        segment == SubSeq(path, LastIndexOf(path, "/") + 1, Len(path))
    IN IF LastIndexOf(segment, ".") <= 1 THEN <<>>
       ELSE SubSeq(segment, LastIndexOf(segment, "."), Len(segment))

ExpectedFilename(created, id, url) ==
    DateTimeToken(created) \o <<"-">> \o id
        \o (IF UrlExtension(url) = <<>> THEN <<".", "j", "p", "g">> ELSE UrlExtension(url))

C18_FilenameDerivation ==
    ListBuilt /\ OneImage
        => /\ Len(downloadList) = 1
           /\ downloadList[1].filename =
                  ExpectedFilename(data[1].created, data[1].attached_images[1].id,
                                   data[1].attached_images[1].original)

\* What does hold: the same, for a URL that ends with its path.
C18_FilenameUnlessQuery ==
    ListBuilt /\ OneImage
        /\ (\A k \in DOMAIN data[1].attached_images[1].original :
                data[1].attached_images[1].original[k] \notin {"?", "#"})
        => /\ Len(downloadList) = 1
           /\ downloadList[1].filename =
                  ExpectedFilename(data[1].created, data[1].attached_images[1].id,
                                   data[1].attached_images[1].original)

C18_ExampleOfTheSpec ==
    /\ ListBuilt /\ OneImage
    /\ data[1].created = Created
    /\ data[1].attached_images[1].id = <<"1", "2", "3", "4", "5">>
    /\ data[1].attached_images[1].original = HttpsUrl
    /\ downloadList[1].filename = <<"2", "0", "2", "3", "1", "2", "2", "5", "-", "1", "0", "3", "0", "4", "5", "-", "1", "2", "3", "4", "5", ".", "j", "p", "g">>

\* C19: once the work list is built it has one item for each image of the
\* report that has a URL, placed after the items of all earlier records and
\* of the earlier images of its own record; images without a URL give no item
\* and no fatal end; equal items are all there; total is the list's length.
Sourced == {rk \in (DOMAIN data) \X (1..MaxImages) :
               /\ rk[2] \in DOMAIN data[rk[1]].attached_images
               /\ data[rk[1]].attached_images[rk[2]].original # <<>>}

PlaceOf(rk) ==
    1 + Cardinality({q \in Sourced : q[1] < rk[1] \/ (q[1] = rk[1] /\ q[2] < rk[2])})

C19_WorkListFromReport ==
    /\ pc # "exit" /\ diagnostic = "none"
    /\ ListBuilt
          => /\ Len(downloadList) = Cardinality(Sourced)
             /\ \A rk \in Sourced :
                    LET image == data[rk[1]].attached_images[rk[2]]
                        item == downloadList[PlaceOf(rk)]
                    IN /\ item.url = image.original
                       /\ item.filename =
                              generateFilename(data[rk[1]].created, image.id,
                                  IF extname(image.original) = <<>> THEN <<".", "j", "p", "g">>
                                  ELSE extname(image.original))
    /\ pc \in {"batch", "sleep", "done"} => stats.total = Len(downloadList)

C19_SkippedImageAndDuplicates ==
    /\ pc = "batch"
    /\ Len(data) = 2
    /\ Len(data[1].attached_images) = 2
    /\ data[1].attached_images[1].original = <<>>
    /\ data[1].attached_images[2].id = IdOf(2)
    /\ Len(downloadList) = 3
    /\ downloadList[1].filename # downloadList[2].filename
    /\ downloadList[2] = downloadList[3]
    /\ stats.total = 3

\* C20: SetFile is run for a file only if its name has the shape
\* YYYYMMDD-HHMMSS-id.ext and its creation or its modification time is not
\* the second that the name encodes; a file of that shape whose two times
\* both are that second is reported skipped, a name of another shape is
\* reported failed, and for neither is SetFile run.
NameShape(name) ==
    LET dot == LastIndexOf(name, ".") IN
    /\ Len(name) >= 17
    /\ \A k \in (1..8) \cup (10..15) : name[k] \in Digits
    /\ name[9] = "-" /\ name[16] = "-"
    /\ dot > 17 /\ dot < Len(name)
    /\ \A k \in (dot + 1)..Len(name) : name[k] \in Letters \cup UpperLetters \cup Digits

TwoDigits(name, k) == 10 * DigitValue(name[k]) + DigitValue(name[k + 1])

IsSecondOf(date, name) ==
    /\ date.year = 100 * TwoDigits(name, 1) + TwoDigits(name, 3)
    /\ date.month + 1 = TwoDigits(name, 5)
    /\ date.day = TwoDigits(name, 7)
    /\ date.hours = TwoDigits(name, 10)
    /\ date.minutes = TwoDigits(name, 12)
    /\ date.seconds = TwoDigits(name, 14)

InSync(k) ==
    /\ fileStats[k].exists
    /\ IsSecondOf(fileStats[k].birthtime, allFiles[k])
    /\ IsSecondOf(fileStats[k].mtime, allFiles[k])

C20_SetFileOnlyWhenNeeded ==
    [][\A k \in DOMAIN allFiles :
          /\ setFileCalls'[k] # setFileCalls[k]
                => /\ NameShape(allFiles[k])
                   /\ fileStats[k].exists
                   /\ ~InSync(k)
                   /\ setFileCalls'[k] = 1
          /\ messages'[k] # messages[k] /\ NameShape(allFiles[k]) /\ InSync(k)
                => /\ messages'[k].skipped /\ ~messages'[k].success
                   /\ setFileCalls'[k] = 0
                   /\ fileStats'[k] = fileStats[k]
          /\ messages'[k] # messages[k] /\ ~NameShape(allFiles[k])
                => /\ ~messages'[k].skipped /\ ~messages'[k].success
                   /\ messages'[k].reason = "format mismatch"
                   /\ setFileCalls'[k] = 0
                   /\ fileStats'[k] = fileStats[k]]_vars

C20_SkippedFailedAndSet ==
    /\ Len(allFiles) = 2
    /\ NameShape(allFiles[1]) /\ messages[1].skipped /\ setFileCalls[1] = 0
    /\ fileStats[1].birthtime.ms = 500
    /\ ~NameShape(allFiles[2]) /\ messages[2].reason = "format mismatch"
    /\ fileStats[2].exists /\ setFileCalls[2] = 0

C20_TimestampsSet ==
    \E k \in DOMAIN allFiles :
        messages[k].success /\ setFileCalls[k] = 1 /\ InSync(k)

\* C21: in directory mode the summary is printed at most once, and when it
\* is printed every worker's exit has been handled, no posted message is
\* still to be received, every file found has its outcome, and
\* successCount + skipCount + failCount = completed = the number of files
\* found; nothing is counted afterwards.  It is printed in the end whenever
\* at least one file was found.
TallyPrinted == coordinator.summaries >= 1

TallyIsFinal ==
    /\ coordinator.summaries <= 1
    /\ TallyPrinted
          => /\ \A w \in DOMAIN workers :
                    workers[w].status = "exited" /\ workers[w].port = <<>>
             /\ coordinator.workersFinished = numWorkers
             /\ \A k \in DOMAIN allFiles : messages[k] # NoMessage
             /\ coordinator.completed = Len(allFiles)
             /\ coordinator.successCount + coordinator.skipCount + coordinator.failCount
                    = Len(allFiles)

C21_TallyOnceAfterAllCounted ==
    /\ []TallyIsFinal
    /\ [][TallyPrinted => coordinator' = coordinator]_vars
    /\ (pc = "dir" /\ Len(allFiles) > 0) ~> TallyPrinted

\* As stated, for every directory: not so for one without files.
C21_TallyAlwaysPrinted ==
    /\ []TallyIsFinal
    /\ <>TallyPrinted

C21_TallyOfThreeFiles ==
    /\ TallyPrinted
    /\ Len(allFiles) = 3
    /\ numWorkers = 2
    /\ coordinator.successCount = 1
    /\ coordinator.skipCount = 1
    /\ coordinator.failCount = 1

\* C22: generateNoticeURIs called without a pageSize returns one URL for
\* each enrollment whose center_id is the center's id, and the page_size
\* parameter of every URL is 20.
QueryParam(url, key) ==
    LET starts == {p \in 1..Len(url) :
                     /\ url[p] \in {"?", "&"}
                     /\ p + Len(key) + 1 <= Len(url)
                     /\ SubSeq(url, p + 1, p + Len(key) + 1) = key \o <<"=">>}
        p == CHOOSE q \in starts : \A r \in starts : q <= r
        from == p + Len(key) + 2
        ends == {e \in from..Len(url) : url[e] = "&"}
        upTo == IF ends = {} THEN Len(url) ELSE (CHOOSE e \in ends : \A r \in ends : e <= r) - 1
    IN IF starts = {} THEN <<>> ELSE SubSeq(url, from, upTo)

OwnEnrollments ==
    {ck \in (DOMAIN info.children) \X (1..MaxEnrollments) :
        /\ ck[2] \in DOMAIN info.children[ck[1]].enrollment
        /\ info.children[ck[1]].enrollment[ck[2]].center_id = center.id}

NoticesReturned == uris.call = "notices" /\ ~uris.threw

OnePerOwnEnrollment ==
    /\ Len(uris.list) = Cardinality(OwnEnrollments)
    /\ \A ck \in OwnEnrollments :
          \E k \in DOMAIN uris.list :
              QueryParam(uris.list[k], <<"c", "l", "s">>)
                  = String(info.children[ck[1]].enrollment[ck[2]].belong_to_class)

C22_DefaultPageSizeIs20 ==
    NoticesReturned /\ pageSize = 0
        => /\ OnePerOwnEnrollment
           /\ \A k \in DOMAIN uris.list :
                 QueryParam(uris.list[k], <<"p", "a", "g", "e", "_", "s", "i", "z", "e">>) = <<"2", "0">>

\* What does hold: the URLs are one per own enrollment, and carry the page
\* size that was passed.
C22_PageSizeAsPassed ==
    NoticesReturned
        => /\ OnePerOwnEnrollment
           /\ pageSize # 0
                 => \A k \in DOMAIN uris.list :
                       QueryParam(uris.list[k], <<"p", "a", "g", "e", "_", "s", "i", "z", "e">>) = String(pageSize)

\* C23: generateCenterURIs returns one URL for each distinct center_id of the
\* enrollments of all children, none twice, in the order in which the ids
\* first occur; it throws, and returns nothing, exactly when there is no
\* children array or no center_id in it.
Occurrences ==
    {ck \in (DOMAIN info.children) \X (1..MaxEnrollments) :
        /\ info.children[ck[1]].hasEnrollment
        /\ ck[2] \in DOMAIN info.children[ck[1]].enrollment
        /\ info.children[ck[1]].enrollment[ck[2]].center_id # 0}

IdAt(ck) == info.children[ck[1]].enrollment[ck[2]].center_id
Earlier(a, b) == a[1] < b[1] \/ (a[1] = b[1] /\ a[2] < b[2])
FirstOccurrences == {a \in Occurrences : \A b \in Occurrences : IdAt(b) = IdAt(a) => ~Earlier(b, a)}

C23_ThrowsWithoutCenterId ==
    /\ uris.call = "centers" /\ uris.threw
    /\ info.hasChildren /\ Len(info.children) = 1
    /\ info.children[1].hasEnrollment /\ Len(info.children[1].enrollment) = 1

\* C24: the scheduler pauses once between two consecutive groups and not
\* after the last, so G groups take max(G - 1, 0) pauses; a pause begins
\* only when the group before it is over, with no request, stream or retry
\* backoff of its items still under way, and the next group starts only
\* when the pause has ended.
PausesBegun == batchIndex + (IF pc = "sleep" THEN 1 ELSE 0)

PauseAfterEachGroupButTheLast ==
    /\ pc \in {"batch", "sleep", "done"} => batchIndex <= Max(Len(batches) - 1, 0)
    /\ pc = "sleep" => batchIndex < Len(batches) - 1
    /\ pc = "done" => PausesBegun = Max(Len(batches) - 1, 0)
    /\ \A j \in Items : phase[j] # "idle" => pc # "start" /\ BatchOf(j) <= batchIndex
    /\ pc = "sleep" => \A j \in Items : BatchOf(j) > batchIndex => phase[j] = "idle"

PauseSteps ==
    /\ (pc' = "sleep" /\ pc # "sleep") => pc = "batch" /\ batchIndex' = batchIndex
    /\ (pc = "sleep" /\ pc' # "sleep")
          => /\ pc' = "batch" /\ batchIndex' = batchIndex + 1
             /\ \A j \in Items : BatchOf(j) = batchIndex + 1 => phase'[j] # "idle"
    /\ (batchIndex' # batchIndex /\ run' = run) => pc = "sleep"
    /\ (pc = "batch" /\ pc' = "done" /\ run' = run) => batchIndex = Len(batches) - 1

C24_PauseBetweenGroups ==
    /\ []PauseAfterEachGroupButTheLast
    /\ [][PauseSteps]_vars
    /\ [](pc = "sleep"
             => \A i \in Items :
                   BatchOf(i) <= batchIndex
                       => outcome[i] # "none" /\ phase[i] \notin {"req", "stream", "backoff"})

\* What does hold: the same, with a group over when each of its promises
\* has settled.
C24_PauseBetweenSettledGroups ==
    /\ []PauseAfterEachGroupButTheLast
    /\ [][PauseSteps]_vars
    /\ [](pc = "sleep" => \A i \in Items : BatchOf(i) <= batchIndex => outcome[i] # "none")

\* C25: a retry starts download() from the top: when a file of at least 100
\* bytes is at the destination at that moment, no request is made, the item
\* ends Skipped, and it is counted as skipped and as nothing else, then or
\* before; when there is none, the retry makes the next request.
RetryStarts(i) == phase[i] = "backoff" /\ phase'[i] # "backoff"

ValidFileAt(i) ==
    /\ disk[downloadList[i].filename].exists
    /\ disk[downloadList[i].filename].size >= 100

C25_RetryRechecksFile ==
    [][\A i \in Items :
          /\ (RetryStarts(i) /\ ValidFileAt(i))
                => /\ requests'[i] = requests[i]
                   /\ phase'[i] = "closed"
                   /\ outcome[i] = "none" /\ outcome'[i] = "skipped"
                   /\ stats' = [stats EXCEPT !.skipped = @ + 1]
          /\ (RetryStarts(i) /\ ~ValidFileAt(i))
                => /\ requests'[i] = requests[i] + 1
                   /\ stats' = stats]_vars

\* What does hold: the same for an item that is not settled when its retry starts.
C25_RetryOfUnsettledItem ==
    [][\A i \in Items :
          /\ (RetryStarts(i) /\ ValidFileAt(i) /\ outcome[i] = "none")
                => /\ requests'[i] = requests[i]
                   /\ phase'[i] = "closed"
                   /\ outcome'[i] = "skipped"
                   /\ stats' = [stats EXCEPT !.skipped = @ + 1]
          /\ (RetryStarts(i) /\ ~ValidFileAt(i))
                => /\ requests'[i] = requests[i] + 1
                   /\ stats' = stats]_vars

C25_RetrySkipped ==
    \E i \in Items :
        /\ outcome[i] = "skipped"
        /\ requests[i] = 1
        /\ retries[i] = DefaultRetries - 1
        /\ stats.skipped = 1

\* C26: when downloadBatch prints the progress line of group k (counted
\* from 0), downloaded + skipped + failed is the number of items of groups
\* 0..k, which is min((k + 1) * concurrency, total).
ProgressLine == pc = "batch" /\ pc' \in {"sleep", "done"}

ItemsUpTo(k) == Cardinality({i \in Items : BatchOf(i) <= k})

C26_ProgressCountsGroupsSoFar ==
    [][ProgressLine
          => /\ stats.downloaded + stats.skipped + stats.failed = ItemsUpTo(batchIndex)
             /\ ItemsUpTo(batchIndex) = Min((batchIndex + 1) * concurrency, stats.total)
             /\ stats.total = Len(downloadList)]_vars

\* What does hold: the same when no item of the groups so far has timed out.
C26_ProgressUnlessTimedOut ==
    [][(ProgressLine /\ \A i \in Items : outcome[i] # "Timeout")
          => /\ stats.downloaded + stats.skipped + stats.failed = ItemsUpTo(batchIndex)
             /\ ItemsUpTo(batchIndex) = Min((batchIndex + 1) * concurrency, stats.total)
             /\ stats.total = Len(downloadList)]_vars

\* C27: when the body of a 200 response has been streamed to its end with
\* fewer than 100 bytes received, none included, the item ends
\* Failed(SizeViolation), without a retry and with the written file removed;
\* no item is Downloaded with fewer than 100 bytes received.
StreamCompletes(i) ==
    /\ phase[i] = "stream" /\ phase'[i] = "closed"
    /\ response[i].statusCode = 200
    /\ outcome[i] = "none"

C27_ActualSizeViolation ==
    /\ [](\A i \in Items : outcome[i] = "downloaded" => downloadSize[i] >= 100)
    /\ [][\A i \in Items :
             (StreamCompletes(i) /\ downloadSize[i] < 100)
                => /\ outcome'[i] \in {"SizeViolation", "EmptyFile"}
                   /\ ~disk'[downloadList[i].filename].exists
                   /\ requests'[i] = requests[i]
                   /\ stats' = [stats EXCEPT !.failed = @ + 1]]_vars

\* What does hold: the same for a body of no bytes at all.
C27_EmptyBodyIsRemoved ==
    /\ [](\A i \in Items : outcome[i] = "downloaded" => downloadSize[i] > 0)
    /\ [][\A i \in Items :
             (StreamCompletes(i) /\ downloadSize[i] = 0)
                => /\ outcome'[i] = "EmptyFile"
                   /\ ~disk'[downloadList[i].filename].exists
                   /\ requests'[i] = requests[i]
                   /\ stats' = [stats EXCEPT !.failed = @ + 1]]_vars

\* C28: at the end of a run every work item whose outcome is Downloaded has
\* its file at its destination path, also when two work items share a
\* destination filename: no unlink of another task or attempt removes it.
C28_DownloadedFilePresent ==
    pc = "done" =>
        \A i \in Items :
            outcome[i] = "downloaded" => disk[downloadList[i].filename].exists

\* What does hold: the same for an item that shares its path with no other.
C28_PresentUnlessPathShared ==
    pc = "done" =>
        \A i \in Items :
            (/\ outcome[i] = "downloaded"
             /\ \A j \in Items : j # i =>
                    downloadList[j].filename # downloadList[i].filename)
                => disk[downloadList[i].filename].exists

\* C29: once the outcome of a work item has been produced, no later event of
\* that item (an error after the timeout destroyed the request, a timeout
\* after a failure, a finish after an abort) increments a statistics
\* counter or issues a new request.
C29_NothingAfterOutcome ==
    [][\A i \in Items :
          (outcome[i] # "none" /\ run' = run)
              => (stats' = stats /\ requests'[i] = requests[i])]_vars

\* What does hold: the same after every outcome but Failed(Timeout).
C29_NothingAfterOutcomeUnlessTimedOut ==
    [][\A i \in Items :
          (outcome[i] \notin {"none", "Timeout"} /\ run' = run)
              => (stats' = stats /\ requests'[i] = requests[i])]_vars

\* C30: the statistics belong to one invocation: at the completion of each
\* invocation of downloads(), the first and every later one, downloaded +
\* skipped + failed equals the total of that invocation, which is the number
\* of its work items; no count of an earlier invocation is carried over.
Counted == stats.downloaded + stats.skipped + stats.failed

C30_LaterProcessCountsItsOwn ==
    (run > 1 /\ pc = "done" /\ \A i \in Items : outcome[i] # "Timeout")
        => (stats.total = Len(downloadList) /\ Counted = stats.total)

C30_LaterProcessHasCounted ==
    /\ run > 1 /\ pc = "done"
    /\ \E i \in Items : firstRun[i] = "downloaded" /\ outcome[i] = "skipped"
    /\ Counted = stats.total /\ stats.total > 0

\* C31: no fetch is started before the whole work list has been built; when
\* an image that has a URL has no creation timestamp or no id,
\* generateFilename throws, and the run ends fatally (exit status 1) with no
\* work item, no fetch started, no request made and no file written.
LacksField(results) ==
    \E r \in DOMAIN results : \E k \in DOMAIN results[r].attached_images :
        /\ results[r].attached_images[k].original # <<>>
        /\ (results[r].created = <<>> \/ results[r].attached_images[k].id = <<>>)

NoFileWritten == \A f \in DOMAIN disk : ~disk[f].exists

C31_ExtractionBeforeScheduling ==
    /\ pc = "setup" => (NoFetchStarted /\ downloadList = <<>>)
    /\ ~NoFetchStarted => (downloadList = ListOf(data) /\ ~LacksField(data))
    /\ LacksField(data)
          => /\ pc \in {"setup", "exit"}
             /\ NoFetchStarted /\ downloadList = <<>>
             /\ NoCounterChanged
             /\ NoFileWritten
             /\ pc = "exit" => (exitCode = 1 /\ diagnostic = "fatal")

C31_SecondImageLacksId ==
    /\ pc = "exit" /\ exitCode = 1
    /\ Len(data) = 1 /\ Len(data[1].attached_images) = 2
    /\ data[1].created # <<>>
    /\ data[1].attached_images[1].original # <<>> /\ data[1].attached_images[1].id # <<>>
    /\ data[1].attached_images[2].original # <<>> /\ data[1].attached_images[2].id = <<>>

C31_FetchAfterFullList ==
    /\ pc = "batch" /\ Len(downloadList) = 2
    /\ \A i \in Items : phase[i] # "idle"

\* C32: in directory mode every file found is in the partition of exactly
\* one worker and is processed exactly once, with one outcome message; there
\* are min(CPU cores, files) workers, none with an empty partition, and the
\* sizes of two partitions differ by at most one.
PlacesOf(k) ==
    {wm \in (DOMAIN fileChunks) \X (1..Len(allFiles)) :
        /\ wm[2] \in DOMAIN fileChunks[wm[1]]
        /\ fileChunks[wm[1]][wm[2]] = allFiles[k]}

RECURSIVE PostedUpTo(_)
PostedUpTo(w) ==
    IF w = 0 THEN 0
    ELSE (workers[w].next - 1) + PostedUpTo(w - 1)

RECURSIVE PendingUpTo(_)
PendingUpTo(w) ==
    IF w = 0 THEN 0
    ELSE Len(workers[w].port) + PendingUpTo(w - 1)

FilesProcessed == {k \in DOMAIN allFiles : messages[k] # NoMessage}

Partitioned ==
    pc = "workers" \/ (pc = "exit" /\ Len(allFiles) > 0)
        => /\ numWorkers = Min(numCPUs, Len(allFiles))
           /\ DOMAIN fileChunks = 1..numWorkers
           /\ DOMAIN workers = 1..numWorkers
           /\ \A w \in 1..numWorkers :
                  Len(fileChunks[w]) >= 1 /\ workers[w].status # "none"
           /\ \A w \in 1..numWorkers : \A v \in 1..numWorkers :
                  Len(fileChunks[w]) - Len(fileChunks[v]) <= 1
           /\ \A k \in DOMAIN allFiles : Cardinality(PlacesOf(k)) = 1
           /\ PostedUpTo(numWorkers) = Cardinality(FilesProcessed)
           /\ coordinator.completed + PendingUpTo(numWorkers) = Cardinality(FilesProcessed)
           /\ pc = "exit" => (FilesProcessed = DOMAIN allFiles
                              /\ coordinator.completed = Len(allFiles))

C32_OneWorkerOncePerFile ==
    /\ []Partitioned
    /\ [][\A k \in DOMAIN allFiles :
             messages'[k] # messages[k] => messages[k] = NoMessage]_vars

C32_ThreeFilesTwoWorkers ==
    /\ pc = "exit"
    /\ Len(allFiles) = 3 /\ numCPUs = 2 /\ numWorkers = 2
    /\ Len(fileChunks[1]) = 2 /\ Len(fileChunks[2]) = 1
    /\ coordinator.completed = 3

C32_FewerFilesThanCores ==
    /\ pc = "exit"
    /\ Len(allFiles) = 1 /\ numCPUs = 2 /\ numWorkers = 1
    /\ coordinator.completed = 1

\* C33: the list printed at the end of directory mode has one entry, with
\* name and reason, for each file whose outcome was skipped or failed and
\* none for a file whose timestamps were set; its length is skipCount +
\* failCount.
EntryOf(k) ==
    [success |-> messages[k].success, reason |-> messages[k].reason,
     skipped |-> messages[k].skipped, filename |-> basename(allFiles[k])]

NotSet == {k \in DOMAIN allFiles : messages[k] # NoMessage /\ ~messages[k].success}

ListedAs(entry) == {n \in DOMAIN coordinator.failList : coordinator.failList[n] = entry}

C33_ListOfSkippedAndFailed ==
    TallyPrinted
        => /\ \A n \in DOMAIN coordinator.failList :
                  /\ ~coordinator.failList[n].success
                  /\ coordinator.failList[n].reason # "none"
                  /\ \E k \in NotSet : EntryOf(k) = coordinator.failList[n]
           /\ \A k \in NotSet :
                  Cardinality(ListedAs(EntryOf(k)))
                      = Cardinality({j \in NotSet : EntryOf(j) = EntryOf(k)})
           /\ Len(coordinator.failList) = Cardinality(NotSet)
           /\ Len(coordinator.failList) = coordinator.skipCount + coordinator.failCount
           /\ coordinator.skipCount = Cardinality({k \in NotSet : messages[k].skipped})

C33_ListOfTwoOutOfThree ==
    /\ TallyPrinted
    /\ Len(allFiles) = 3
    /\ Len(coordinator.failList) = 2
    /\ \E n \in DOMAIN coordinator.failList : coordinator.failList[n].skipped
    /\ \E n \in DOMAIN coordinator.failList : ~coordinator.failList[n].skipped
    /\ \E k \in DOMAIN allFiles : messages[k].success

C33_SameNameSetAndFailed ==
    /\ TallyPrinted
    /\ \E j \in DOMAIN allFiles : \E k \in DOMAIN allFiles :
          /\ j # k /\ basename(allFiles[j]) = basename(allFiles[k])
          /\ messages[j].success
          /\ messages[k].reason = "command failed"
          /\ Cardinality(ListedAs(EntryOf(k))) = 1

TypeOK ==
    /\ pc \in {"main", "setup", "exit", "start", "batch", "sleep", "done", "sync",
              "dir", "workers", "uris"}
    /\ exitCode \in {0, 1}
    /\ \A i \in Items : /\ outcome[i] \in Outcomes
                        /\ retries[i] \in 0..DefaultRetries
                        /\ downloadSize[i] \in 0..MaxBytes
                        /\ requests[i] \in 0..(DefaultRetries + 1)
====
